---- MODULE Spec2Model ----
(***************************************************************************)
(* Rental market with collateralized micro-loans                           *)
(* (src/Simulation/rental_agent_simulation.py).                            *)
(*                                                                         *)
(* Numbers.  The program computes in binary floating point.  The model     *)
(* computes exactly, in integers: every amount of money is held in         *)
(* thousandths of a currency unit, savings_rate, risk_tolerance and        *)
(* interest_rate are held in hundredths (per cent).  The attribute values  *)
(* drawn in Init are chosen so that every quotient the program forms       *)
(* (rent, initial funds, accrual, monthly payment) is exact; rounding      *)
(* error of the floating-point build is not modelled.                      *)
(*                                                                         *)
(* Populations.  Agents are the three agent classes constructed with       *)
(* arbitrary parameters (the class constructors put no restriction on      *)
(* them).  RentalLoanModel.__init__ draws its parameters from sub-ranges   *)
(* of these; InModelRanges marks the populations it can draw.              *)
(*                                                                         *)
(* Identities.  An agent is its index in its population, in the order of   *)
(* insertion into the schedule; an agreement or loan is its index in       *)
(* all_agreements / all_loans; the program's id of the record is kept in   *)
(* its field id; None is 0.                                                *)
(***************************************************************************)
EXTENDS Integers, Sequences, FiniteSets

VARIABLES
    landlords,        \* LandlordAgent objects, in schedule order
    renters,          \* RenterAgent objects, in schedule order
    lenders,          \* LenderAgent objects, in schedule order
    all_agreements,   \* RentalLoanModel.all_agreements
    all_loans,        \* RentalLoanModel.all_loans
    activated,        \* agents already activated in the running schedule.step()
    steps,            \* schedule.steps
    running,          \* Model.running
    model_vars        \* datacollector's model-level time series

vars == <<landlords, renters, lenders, all_agreements, all_loans,
          activated, steps, running, model_vars>>

(* ------------------------------ bounds -------------------------------- *)

\* The step budget max_steps of the run.
MaxSteps == 7

\* Cap on the months with liquidity need of a run, all renters' counters
\* months_with_liquidity_need together.
MaxLiquidityNeeds == 1

\* Deposits and rents up to MaxAmount are the inputs the collateral formulas
\* are compared on.
MaxAmount == 12

\* The populations a run is built with, as
\* <<num_landlords, num_renters, num_lenders>>.
Populations ==
    ((0..1) \X (0..2) \X (0..1)) \cup ((0..1) \X (0..1) \X {2})

\* Parameters the agents are constructed with.
LandlordParams ==
    { [risk_tolerance |-> 80, property_value |-> 120000],
      [risk_tolerance |-> 50, property_value |-> 240000] }

RenterParams ==
    { [income |-> 6000, savings_rate |-> 5,  financial_stability |-> 8],
      [income |-> 6000, savings_rate |-> 10, financial_stability |-> 9],
      [income |-> 4000, savings_rate |-> 10, financial_stability |-> 3] }

LenderParams ==
    { [available_funds |-> 1000,   interest_rate |-> 10],
      [available_funds |-> 500000, interest_rate |-> 10],
      [available_funds |-> 500000, interest_rate |-> 250] }

(* ------------------------- program constants -------------------------- *)

MaxProperties == 5

DepositMonths == 3

ProtectedMonths == 2

LoanDuration == 6

InitialSavingsMonths == 6

(* ------------------------------ helpers ------------------------------- *)

Max(a, b) == IF a >= b THEN a ELSE b

RECURSIVE SumSeq(_)
SumSeq(s) == IF s = <<>> THEN 0 ELSE Head(s) + SumSeq(Tail(s))

\* [x for x in s if P(x)] with P given as the set of indices kept.
RECURSIVE SelectIdx(_, _)
SelectIdx(n, keep) ==
    IF n = 0 THEN <<>>
    ELSE IF n \in keep THEN Append(SelectIdx(n - 1, keep), n)
         ELSE SelectIdx(n - 1, keep)

Ratio(n, d) == [num |-> n, den |-> d]

\* The objects the agents' methods read and write.
World ==
    [landlords |-> landlords, renters |-> renters, lenders |-> lenders,
     all_agreements |-> all_agreements, all_loans |-> all_loans]

Install(W) ==
    /\ landlords' = W.landlords
    /\ renters' = W.renters
    /\ lenders' = W.lenders
    /\ all_agreements' = W.all_agreements
    /\ all_loans' = W.all_loans

(* --------------------------- RenterAgent ------------------------------ *)

NewRenter(p) ==
    [income |-> p.income,
     savings_rate |-> p.savings_rate,
     financial_stability |-> p.financial_stability,
     funds |-> (p.income * InitialSavingsMonths * p.savings_rate) \div 100,
     rental_agreement |-> 0,
     loan_agreement |-> 0,
     months_with_liquidity_need |-> 0,
     total_loan_costs |-> 0]

\* Variant of PaySecurityDepositOk: the deposit must be strictly below the
\* funds.
PaySecurityDepositOk_Strict(W, r) ==
    LET a == W.renters[r].rental_agreement IN
    /\ a # 0
    /\ W.all_agreements[a].status = "INITIALIZED"
    /\ W.renters[r].funds > W.all_agreements[a].security_deposit

\* Variant of PaySecurityDepositOk: the deposit is taken whatever the funds.
PaySecurityDepositOk_AnyFunds(W, r) ==
    LET a == W.renters[r].rental_agreement IN
    /\ a # 0
    /\ W.all_agreements[a].status = "INITIALIZED"

\* pay_security_deposit: the returned flag ...
PaySecurityDepositOk(W, r) ==
    LET a == W.renters[r].rental_agreement IN
    /\ a # 0
    /\ W.all_agreements[a].status = "INITIALIZED"
    /\ W.renters[r].funds >= W.all_agreements[a].security_deposit

\* ... and the state it leaves.
PaySecurityDeposit(W, r) ==
    LET a == W.renters[r].rental_agreement IN
    IF PaySecurityDepositOk(W, r)
    THEN [W EXCEPT !.renters[r].funds = @ - W.all_agreements[a].security_deposit,
                   !.all_agreements[a].current_deposit =
                        W.all_agreements[a].security_deposit]
    ELSE W

(* --------------------------- LenderAgent ------------------------------ *)

NewLender(p) ==
    [available_funds |-> p.available_funds,
     interest_rate |-> p.interest_rate,
     loans |-> <<>>,
     total_income |-> 0,
     defaults_recovered |-> 0]

\* fund_loan: the returned flag ...
FundLoanOk(W, k, l) ==
    W.lenders[k].available_funds >= W.all_loans[l].loan_amount

\* Variant of FundLoan: the loan is granted without debiting the Lender.
FundLoan_LenderNotDebited(W, k, l) == W

\* ... and the state it leaves.
FundLoan(W, k, l) ==
    IF FundLoanOk(W, k, l)
    THEN [W EXCEPT !.lenders[k].available_funds = @ - W.all_loans[l].loan_amount]
    ELSE W

(* ---------------------- RenterAgent, continued ------------------------ *)

\* rental_monte_carlo.calculate_available_collateral
CalculateAvailableCollateral(security_deposit, monthly_rent) ==
    Max(0, security_deposit - (monthly_rent * 2))

\* Variant of AvailableCollateral: the difference is not clamped at 0.
AvailableCollateral_Unclamped(current_deposit, rent) ==
    current_deposit - (rent * ProtectedMonths)

\* Variant of AvailableCollateral: one month of rent protected instead of two.
AvailableCollateral_OneMonthProtected(current_deposit, rent) ==
    Max(0, current_deposit - rent)

\* available_collateral = max(0, security_deposit - (rent * 2))
AvailableCollateral(current_deposit, rent) ==
    Max(0, current_deposit - (rent * ProtectedMonths))

\* Variant of MonthlyPayment: the interest is left out.
MonthlyPayment_NoInterest(rent, interest_rate) ==
    (rent * 100) \div (100 * LoanDuration)

\* rent * (1 + interest_rate/100) / 6
MonthlyPayment(rent, interest_rate) ==
    (rent * (100 + interest_rate)) \div (100 * LoanDuration)

\* Variant of AvailableLenders: every lender, whatever its available funds.
AvailableLenders_AnyFunds(W, rent) ==
    DOMAIN W.lenders

\* The lenders with available_funds >= rent.
AvailableLenders(W, rent) ==
    {k \in DOMAIN W.lenders : W.lenders[k].available_funds >= rent}

\* Variant of SelectedLender: the sort is descending, so the lender of
\* greatest interest rate is taken.
SelectedLender_MostExpensive(W, rent) ==
    CHOOSE k \in AvailableLenders(W, rent) :
        \A j \in AvailableLenders(W, rent) :
            \/ W.lenders[k].interest_rate > W.lenders[j].interest_rate
            \/ /\ W.lenders[k].interest_rate = W.lenders[j].interest_rate
               /\ k <= j

\* lenders.sort(key=interest_rate); lenders[0]: the sort is stable, so the
\* first lender in schedule order among those of least interest rate.
SelectedLender(W, rent) ==
    CHOOSE k \in AvailableLenders(W, rent) :
        \A j \in AvailableLenders(W, rent) :
            \/ W.lenders[k].interest_rate < W.lenders[j].interest_rate
            \/ /\ W.lenders[k].interest_rate = W.lenders[j].interest_rate
               /\ k <= j

\* Variant of NewLoan: the id is numbered after the loans now ACTIVE.
NewLoan_IdAfterActiveLoans(W, r, k, rent) ==
    [id |-> <<"L", Cardinality({l \in DOMAIN W.all_loans :
                                  W.all_loans[l].status = "ACTIVE"}) + 1>>,
     borrower |-> r,
     lender |-> k,
     rental_agreement |-> W.renters[r].rental_agreement,
     loan_amount |-> rent,
     collateral_amount |-> rent,
     interest_rate |-> W.lenders[k].interest_rate,
     duration |-> LoanDuration,
     status |-> "INITIALIZED",
     months_paid |-> 0,
     monthly_payment |-> MonthlyPayment(rent, W.lenders[k].interest_rate)]

\* The loan record; its id f"L{len(all_loans) + 1}" is held as the pair of
\* the letter and the number.
NewLoan(W, r, k, rent) ==
    [id |-> <<"L", Len(W.all_loans) + 1>>,
     borrower |-> r,
     lender |-> k,
     rental_agreement |-> W.renters[r].rental_agreement,
     loan_amount |-> rent,
     collateral_amount |-> rent,
     interest_rate |-> W.lenders[k].interest_rate,
     duration |-> LoanDuration,
     status |-> "INITIALIZED",
     months_paid |-> 0,
     monthly_payment |-> MonthlyPayment(rent, W.lenders[k].interest_rate)]

\* Variant of LoanFunded: the collateral leaves current_deposit and is not
\* booked in collateralized_amount.
LoanFunded_CollateralNotBooked(W, r, k, l) ==
    LET a == W.renters[r].rental_agreement
        rent == W.all_agreements[a].monthly_rent
        o == W.all_agreements[a].landlord
    IN  [W EXCEPT !.all_agreements[a].current_deposit = @ - rent,
                  !.all_agreements[a].grace_period =
                       (W.all_agreements[a].current_deposit - rent)
                           \div W.all_agreements[a].monthly_rent,
                  !.landlords[o].total_income = @ + rent,
                  !.all_agreements[a].months_active = @ + 1,
                  !.all_loans[l].status = "ACTIVE",
                  !.all_agreements[a].months_in_default = 0]

\* Variant of LoanFunded: the Owner is credited the rent and the month is
\* not counted in months_active.
LoanFunded_MonthNotCounted(W, r, k, l) ==
    LET a == W.renters[r].rental_agreement
        rent == W.all_agreements[a].monthly_rent
        o == W.all_agreements[a].landlord
    IN  [W EXCEPT !.all_agreements[a].current_deposit = @ - rent,
                  !.all_agreements[a].collateralized_amount = @ + rent,
                  !.all_agreements[a].grace_period =
                       (W.all_agreements[a].current_deposit - rent)
                           \div W.all_agreements[a].monthly_rent,
                  !.landlords[o].total_income = @ + rent,
                  !.all_loans[l].status = "ACTIVE",
                  !.all_agreements[a].months_in_default = 0]

\* request_rent_loan, lines 184-198: the loan l of lender k was funded.
LoanFunded(W, r, k, l) ==
    LET a == W.renters[r].rental_agreement
        rent == W.all_agreements[a].monthly_rent
        o == W.all_agreements[a].landlord
    IN  [W EXCEPT !.all_agreements[a].current_deposit = @ - rent,
                  !.all_agreements[a].collateralized_amount = @ + rent,
                  !.all_agreements[a].grace_period =
                       (W.all_agreements[a].current_deposit - rent)
                           \div W.all_agreements[a].monthly_rent,
                  !.landlords[o].total_income = @ + rent,
                  !.all_agreements[a].months_active = @ + 1,
                  !.all_loans[l].status = "ACTIVE",
                  !.all_agreements[a].months_in_default = 0]

\* request_rent_loan, lines 163-198: the loan is created with lender k.
CreateLoan(W, r, k, rent) ==
    LET l == Len(W.all_loans) + 1
        W1 == [W EXCEPT !.renters[r].loan_agreement = l,
                        !.lenders[k].loans = Append(@, l),
                        !.all_loans = Append(@, NewLoan(W, r, k, rent))]
    IN  IF FundLoanOk(W1, k, l)
        THEN LoanFunded(FundLoan(W1, k, l), r, k, l)
        ELSE W1

\* Variant of RequestRentLoan: the collateral is computed on the deposit
\* first paid, security_deposit, instead of current_deposit.
RequestRentLoan_OnPaidDeposit(W, r) ==
    LET a == W.renters[r].rental_agreement IN
    IF W.renters[r].loan_agreement # 0 THEN W
    ELSE IF a = 0 THEN W
    ELSE LET rent == W.all_agreements[a].monthly_rent
             security_deposit == W.all_agreements[a].security_deposit
         IN  IF /\ AvailableCollateral(security_deposit, rent) >= rent
                /\ AvailableLenders(W, rent) # {}
             THEN CreateLoan(W, r, SelectedLender(W, rent), rent)
             ELSE W

RequestRentLoan(W, r) ==
    LET a == W.renters[r].rental_agreement IN
    IF W.renters[r].loan_agreement # 0 THEN W
    ELSE IF a = 0 THEN W
    ELSE LET rent == W.all_agreements[a].monthly_rent
             security_deposit == W.all_agreements[a].current_deposit
         IN  IF /\ AvailableCollateral(security_deposit, rent) >= rent
                /\ AvailableLenders(W, rent) # {}
             THEN CreateLoan(W, r, SelectedLender(W, rent), rent)
             ELSE W

\* Variant of PayRentDirectly: the rent leaves the Tenant's funds and is not
\* credited to the Owner.
PayRentDirectly_OwnerNotCredited(W, r) ==
    LET a == W.renters[r].rental_agreement
        rent_amount == W.all_agreements[a].monthly_rent
    IN  [W EXCEPT !.renters[r].funds = @ - rent_amount,
                  !.all_agreements[a].months_active = @ + 1,
                  !.all_agreements[a].months_in_default = 0]

\* make_rent_payment, lines 130-136: the rent is paid from the funds.
PayRentDirectly(W, r) ==
    LET a == W.renters[r].rental_agreement
        rent_amount == W.all_agreements[a].monthly_rent
        o == W.all_agreements[a].landlord
    IN  [W EXCEPT !.renters[r].funds = @ - rent_amount,
                  !.landlords[o].total_income = @ + rent_amount,
                  !.all_agreements[a].months_active = @ + 1,
                  !.all_agreements[a].months_in_default = 0]

\* Variant of MakeRentPayment: a Tenant short of funds asks for the loan and
\* then pays the rent from its funds as well.
MakeRentPayment_LoanAndPayment(W, r) ==
    LET a == W.renters[r].rental_agreement IN
    IF a = 0 THEN W
    ELSE IF W.all_agreements[a].status # "ACTIVE" THEN W
    ELSE IF W.renters[r].funds < W.all_agreements[a].monthly_rent * 2
         THEN PayRentDirectly(RequestRentLoan(W, r), r)
         ELSE PayRentDirectly(W, r)

\* Variant of MakeRentPayment: a month in which the rent is neither paid nor
\* lent is counted in months_in_default.
MakeRentPayment_CountsMissedMonth(W, r) ==
    LET a == W.renters[r].rental_agreement IN
    IF a = 0 THEN W
    ELSE IF W.all_agreements[a].status # "ACTIVE" THEN W
    ELSE IF W.renters[r].funds < W.all_agreements[a].monthly_rent * 2
         THEN LET W1 == RequestRentLoan(W, r)
              IN  IF Len(W1.all_loans) = Len(W.all_loans)
                  THEN [W1 EXCEPT !.all_agreements[a].months_in_default = @ + 1]
                  ELSE W1
         ELSE PayRentDirectly(W, r)

MakeRentPayment(W, r) ==
    LET a == W.renters[r].rental_agreement IN
    IF a = 0 THEN W
    ELSE IF W.all_agreements[a].status # "ACTIVE" THEN W
    ELSE IF W.renters[r].funds < W.all_agreements[a].monthly_rent * 2
         THEN RequestRentLoan(W, r)
         ELSE PayRentDirectly(W, r)

\* Variant of PayLoanInstalment: the last payment returns the collateral and
\* clears the reference, and the loan is left ACTIVE.
PayLoanInstalment_StaysActive(W, r) ==
    LET l == W.renters[r].loan_agreement
        a == W.renters[r].rental_agreement
        payment == W.all_loans[l].monthly_payment
        k == W.all_loans[l].lender
        W1 == [W EXCEPT !.renters[r].funds = @ - payment,
                        !.lenders[k].total_income = @ + payment,
                        !.all_loans[l].months_paid = @ + 1,
                        !.renters[r].total_loan_costs = @ + payment]
    IN  IF W1.all_loans[l].months_paid >= W1.all_loans[l].duration
        THEN [W1 EXCEPT
                !.all_agreements[a].current_deposit =
                    @ + W1.all_loans[l].collateral_amount,
                !.all_agreements[a].collateralized_amount =
                    @ - W1.all_loans[l].collateral_amount,
                !.all_agreements[a].grace_period =
                    (W1.all_agreements[a].current_deposit
                        + W1.all_loans[l].collateral_amount)
                        \div W1.all_agreements[a].monthly_rent,
                !.renters[r].loan_agreement = 0]
        ELSE W1

\* Variant of PayLoanInstalment: the loan is completed only once months_paid
\* exceeds the duration.
PayLoanInstalment_LateCompletion(W, r) ==
    LET l == W.renters[r].loan_agreement
        a == W.renters[r].rental_agreement
        payment == W.all_loans[l].monthly_payment
        k == W.all_loans[l].lender
        W1 == [W EXCEPT !.renters[r].funds = @ - payment,
                        !.lenders[k].total_income = @ + payment,
                        !.all_loans[l].months_paid = @ + 1,
                        !.renters[r].total_loan_costs = @ + payment]
    IN  IF W1.all_loans[l].months_paid > W1.all_loans[l].duration
        THEN [W1 EXCEPT
                !.all_agreements[a].current_deposit =
                    @ + W1.all_loans[l].collateral_amount,
                !.all_agreements[a].collateralized_amount =
                    @ - W1.all_loans[l].collateral_amount,
                !.all_agreements[a].grace_period =
                    (W1.all_agreements[a].current_deposit
                        + W1.all_loans[l].collateral_amount)
                        \div W1.all_agreements[a].monthly_rent,
                !.all_loans[l].status = "COMPLETED",
                !.renters[r].loan_agreement = 0]
        ELSE W1

\* Variant of PayLoanInstalment: the payment is credited to the Lender's
\* available_funds as well as to its total_income.
PayLoanInstalment_ReplenishesLender(W, r) ==
    LET l == W.renters[r].loan_agreement
        a == W.renters[r].rental_agreement
        payment == W.all_loans[l].monthly_payment
        k == W.all_loans[l].lender
        W1 == [W EXCEPT !.renters[r].funds = @ - payment,
                        !.lenders[k].total_income = @ + payment,
                        !.lenders[k].available_funds = @ + payment,
                        !.all_loans[l].months_paid = @ + 1,
                        !.renters[r].total_loan_costs = @ + payment]
    IN  IF W1.all_loans[l].months_paid >= W1.all_loans[l].duration
        THEN [W1 EXCEPT
                !.all_agreements[a].current_deposit =
                    @ + W1.all_loans[l].collateral_amount,
                !.all_agreements[a].collateralized_amount =
                    @ - W1.all_loans[l].collateral_amount,
                !.all_agreements[a].grace_period =
                    (W1.all_agreements[a].current_deposit
                        + W1.all_loans[l].collateral_amount)
                        \div W1.all_agreements[a].monthly_rent,
                !.all_loans[l].status = "COMPLETED",
                !.renters[r].loan_agreement = 0]
        ELSE W1

\* Variant of PayLoanInstalment: the completion of the loan returns the
\* principal to the Lender's available_funds.
PayLoanInstalment_ReturnsPrincipal(W, r) ==
    LET l == W.renters[r].loan_agreement
        a == W.renters[r].rental_agreement
        payment == W.all_loans[l].monthly_payment
        k == W.all_loans[l].lender
        W1 == [W EXCEPT !.renters[r].funds = @ - payment,
                        !.lenders[k].total_income = @ + payment,
                        !.all_loans[l].months_paid = @ + 1,
                        !.renters[r].total_loan_costs = @ + payment]
    IN  IF W1.all_loans[l].months_paid >= W1.all_loans[l].duration
        THEN [W1 EXCEPT
                !.all_agreements[a].current_deposit =
                    @ + W1.all_loans[l].collateral_amount,
                !.all_agreements[a].collateralized_amount =
                    @ - W1.all_loans[l].collateral_amount,
                !.all_agreements[a].grace_period =
                    (W1.all_agreements[a].current_deposit
                        + W1.all_loans[l].collateral_amount)
                        \div W1.all_agreements[a].monthly_rent,
                !.lenders[k].available_funds = @ + W1.all_loans[l].loan_amount,
                !.all_loans[l].status = "COMPLETED",
                !.renters[r].loan_agreement = 0]
        ELSE W1

\* make_loan_payment, lines 205-222: the payment is made.
PayLoanInstalment(W, r) ==
    LET l == W.renters[r].loan_agreement
        a == W.renters[r].rental_agreement
        payment == W.all_loans[l].monthly_payment
        k == W.all_loans[l].lender
        W1 == [W EXCEPT !.renters[r].funds = @ - payment,
                        !.lenders[k].total_income = @ + payment,
                        !.all_loans[l].months_paid = @ + 1,
                        !.renters[r].total_loan_costs = @ + payment]
    IN  IF W1.all_loans[l].months_paid >= W1.all_loans[l].duration
        THEN [W1 EXCEPT
                !.all_agreements[a].current_deposit =
                    @ + W1.all_loans[l].collateral_amount,
                !.all_agreements[a].collateralized_amount =
                    @ - W1.all_loans[l].collateral_amount,
                !.all_agreements[a].grace_period =
                    (W1.all_agreements[a].current_deposit
                        + W1.all_loans[l].collateral_amount)
                        \div W1.all_agreements[a].monthly_rent,
                !.all_loans[l].status = "COMPLETED",
                !.renters[r].loan_agreement = 0]
        ELSE W1

\* Variant of DefaultOnLoan: the forfeited collateral is also put back into
\* current_deposit.
DefaultOnLoan_ReturnsCollateral(W, r) ==
    LET l == W.renters[r].loan_agreement
        a == W.renters[r].rental_agreement
        k == W.all_loans[l].lender
    IN  [W EXCEPT !.all_loans[l].status = "DEFAULTED",
                  !.lenders[k].available_funds =
                       @ + W.all_loans[l].collateral_amount,
                  !.lenders[k].defaults_recovered =
                       @ + W.all_loans[l].collateral_amount,
                  !.all_agreements[a].current_deposit =
                       @ + W.all_loans[l].collateral_amount,
                  !.all_agreements[a].collateralized_amount =
                       @ - W.all_loans[l].collateral_amount,
                  !.renters[r].loan_agreement = 0]

\* Variant of DefaultOnLoan: the loan is written back as INITIALIZED.
DefaultOnLoan_Reinitialized(W, r) ==
    LET l == W.renters[r].loan_agreement
        a == W.renters[r].rental_agreement
        k == W.all_loans[l].lender
    IN  [W EXCEPT !.all_loans[l].status = "INITIALIZED",
                  !.lenders[k].available_funds =
                       @ + W.all_loans[l].collateral_amount,
                  !.lenders[k].defaults_recovered =
                       @ + W.all_loans[l].collateral_amount,
                  !.all_agreements[a].collateralized_amount =
                       @ - W.all_loans[l].collateral_amount,
                  !.renters[r].loan_agreement = 0]

\* Variant of DefaultOnLoan: DEFAULTED is written to the rental agreement
\* instead of the loan.
DefaultOnLoan_EndsAgreement(W, r) ==
    LET l == W.renters[r].loan_agreement
        a == W.renters[r].rental_agreement
        k == W.all_loans[l].lender
    IN  [W EXCEPT !.all_agreements[a].status = "DEFAULTED",
                  !.lenders[k].available_funds =
                       @ + W.all_loans[l].collateral_amount,
                  !.lenders[k].defaults_recovered =
                       @ + W.all_loans[l].collateral_amount,
                  !.all_agreements[a].collateralized_amount =
                       @ - W.all_loans[l].collateral_amount,
                  !.renters[r].loan_agreement = 0]

\* Variant of DefaultOnLoan: the forfeited collateral stays booked in
\* collateralized_amount.
DefaultOnLoan_CollateralStaysBooked(W, r) ==
    LET l == W.renters[r].loan_agreement
        a == W.renters[r].rental_agreement
        k == W.all_loans[l].lender
    IN  [W EXCEPT !.all_loans[l].status = "DEFAULTED",
                  !.lenders[k].available_funds =
                       @ + W.all_loans[l].collateral_amount,
                  !.lenders[k].defaults_recovered =
                       @ + W.all_loans[l].collateral_amount,
                  !.renters[r].loan_agreement = 0]

\* Variant of DefaultOnLoan: the Tenant keeps its reference to the loan.
DefaultOnLoan_KeepsReference(W, r) ==
    LET l == W.renters[r].loan_agreement
        a == W.renters[r].rental_agreement
        k == W.all_loans[l].lender
    IN  [W EXCEPT !.all_loans[l].status = "DEFAULTED",
                  !.lenders[k].available_funds =
                       @ + W.all_loans[l].collateral_amount,
                  !.lenders[k].defaults_recovered =
                       @ + W.all_loans[l].collateral_amount,
                  !.all_agreements[a].collateralized_amount =
                       @ - W.all_loans[l].collateral_amount]

\* make_loan_payment, lines 223-235: the loan defaults.
DefaultOnLoan(W, r) ==
    LET l == W.renters[r].loan_agreement
        a == W.renters[r].rental_agreement
        k == W.all_loans[l].lender
    IN  [W EXCEPT !.all_loans[l].status = "DEFAULTED",
                  !.lenders[k].available_funds =
                       @ + W.all_loans[l].collateral_amount,
                  !.lenders[k].defaults_recovered =
                       @ + W.all_loans[l].collateral_amount,
                  !.all_agreements[a].collateralized_amount =
                       @ - W.all_loans[l].collateral_amount,
                  !.renters[r].loan_agreement = 0]

MakeLoanPayment(W, r) ==
    LET l == W.renters[r].loan_agreement IN
    IF l = 0 THEN W
    ELSE IF W.all_loans[l].status # "ACTIVE" THEN W
    ELSE IF W.renters[r].funds >= W.all_loans[l].monthly_payment
         THEN PayLoanInstalment(W, r)
         ELSE DefaultOnLoan(W, r)

\* Variant of CheckLiquidityNeeds: a month of liquidity need also costs the
\* renter a tenth of its income.
CheckLiquidityNeeds_DrawsOnFunds(W, r, need) ==
    IF need
    THEN [W EXCEPT !.renters[r].months_with_liquidity_need = @ + 1,
                   !.renters[r].funds = @ - (W.renters[r].income \div 10)]
    ELSE W

\* check_liquidity_needs; need is the outcome of random.random() < 0.1.
CheckLiquidityNeeds(W, r, need) ==
    IF need
    THEN [W EXCEPT !.renters[r].months_with_liquidity_need = @ + 1]
    ELSE W

\* Variant of HasActiveAgreement: any agreement will do, whatever its status.
HasActiveAgreement_AnyStatus(W, r) ==
    W.renters[r].rental_agreement # 0

HasActiveAgreement(W, r) ==
    /\ W.renters[r].rental_agreement # 0
    /\ W.all_agreements[W.renters[r].rental_agreement].status = "ACTIVE"

\* The savings of a month: income * savings_rate.
Accrual(W, r) == (W.renters[r].income * W.renters[r].savings_rate) \div 100

\* Variant of RenterAgentStep: the Tenant also runs its loan-payment procedure
\* in its own activation, after the rent decision.
RenterAgentStep_PaysOwnLoan(W, r, need) ==
    IF HasActiveAgreement(W, r)
    THEN CheckLiquidityNeeds(
             MakeLoanPayment(
                 MakeRentPayment(
                     [W EXCEPT !.renters[r].funds = @ + Accrual(W, r)], r),
                 r),
             r, need)
    ELSE W

RenterAgentStep(W, r, need) ==
    IF HasActiveAgreement(W, r)
    THEN CheckLiquidityNeeds(
             MakeRentPayment(
                 [W EXCEPT !.renters[r].funds = @ + Accrual(W, r)], r),
             r, need)
    ELSE W

(* ---------------------- LenderAgent, continued ------------------------ *)

\* Variant of ActiveBorrowers: only the borrowers able to pay are collected
\* from, so that no loan is put in default.
ActiveBorrowers_AbleToPay(W, k) ==
    LET mine == W.lenders[k].loans
        kept == SelectIdx(Len(mine),
                    {i \in 1..Len(mine) :
                        /\ W.all_loans[mine[i]].status = "ACTIVE"
                        /\ W.renters[W.all_loans[mine[i]].borrower].funds
                              >= W.all_loans[mine[i]].monthly_payment})
    IN  [i \in 1..Len(kept) |-> W.all_loans[mine[kept[i]]].borrower]

\* [loan["borrower"] for loan in self.loans if loan["status"] == "ACTIVE"]
ActiveBorrowers(W, k) ==
    LET mine == W.lenders[k].loans
        kept == SelectIdx(Len(mine),
                    {i \in 1..Len(mine) : W.all_loans[mine[i]].status = "ACTIVE"})
    IN  [i \in 1..Len(kept) |-> W.all_loans[mine[kept[i]]].borrower]

RECURSIVE MakeLoanPayments(_, _)
MakeLoanPayments(W, borrowers) ==
    IF borrowers = <<>> THEN W
    ELSE MakeLoanPayments(MakeLoanPayment(W, Head(borrowers)), Tail(borrowers))

LenderAgentStep(W, k) == MakeLoanPayments(W, ActiveBorrowers(W, k))

(* -------------------------- LandlordAgent ----------------------------- *)

NewLandlord(p) ==
    [risk_tolerance |-> p.risk_tolerance,
     property_value |-> p.property_value,
     rental_agreements |-> <<>>,
     total_income |-> 0]

\* Variant of Qualifies: the Owner's risk threshold is not applied.
Qualifies_AnyStability(W, o, r) ==
    W.renters[r].financial_stability * 10 >= 0

\* financial_stability / 10 >= 1 - risk_tolerance
Qualifies(W, o, r) ==
    W.renters[r].financial_stability * 10 >= 100 - W.landlords[o].risk_tolerance

\* Variant of AvailableRenters: a Tenant whose agreement is not ACTIVE counts
\* as available.
AvailableRenters_WithoutActive(W) ==
    {r \in DOMAIN W.renters :
        \/ W.renters[r].rental_agreement = 0
        \/ W.all_agreements[W.renters[r].rental_agreement].status # "ACTIVE"}

AvailableRenters(W) ==
    {r \in DOMAIN W.renters : W.renters[r].rental_agreement = 0}

QualifiedRenters(W, o) == {r \in AvailableRenters(W) : Qualifies(W, o, r)}

\* The sort by financial_stability, descending, is stable and the filter keeps
\* the order: qualified_renters[0] is the first renter in schedule order among
\* the qualified ones of greatest financial_stability.
SelectedRenter(W, o) ==
    CHOOSE r \in QualifiedRenters(W, o) :
        \A q \in QualifiedRenters(W, o) :
            \/ W.renters[r].financial_stability > W.renters[q].financial_stability
            \/ /\ W.renters[r].financial_stability = W.renters[q].financial_stability
               /\ r <= q

\* Variant of MonthlyRent: 5 per cent of the property value.
MonthlyRent_FivePercent(property_value) == (property_value * 5) \div 100

\* monthly_rent = property_value * 0.005
MonthlyRent(property_value) == (property_value * 5) \div 1000

\* The agreement record; its id f"A{len(all_agreements) + 1}" is held as the
\* pair of the letter and the number.
NewAgreement(W, o, r) ==
    LET monthly_rent == MonthlyRent(W.landlords[o].property_value)
        security_deposit == monthly_rent * DepositMonths
    IN  [id |-> <<"A", Len(W.all_agreements) + 1>>,
         landlord |-> o,
         renter |-> r,
         monthly_rent |-> monthly_rent,
         security_deposit |-> security_deposit,
         current_deposit |-> security_deposit,
         status |-> "INITIALIZED",
         months_active |-> 0,
         collateralized_amount |-> 0,
         grace_period |-> security_deposit \div monthly_rent,
         months_in_default |-> 0]

\* consider_new_agreement, lines 51-77: the agreement with renter r.
CreateAgreement(W, o, r) ==
    LET a == Len(W.all_agreements) + 1
        W1 == [W EXCEPT !.landlords[o].rental_agreements = Append(@, a),
                        !.renters[r].rental_agreement = a,
                        !.all_agreements = Append(@, NewAgreement(W, o, r))]
    IN  IF PaySecurityDepositOk(W1, r)
        THEN [PaySecurityDeposit(W1, r) EXCEPT !.all_agreements[a].status = "ACTIVE"]
        ELSE W1

ConsiderNewAgreement(W, o) ==
    IF AvailableRenters(W) = {} THEN W
    ELSE IF QualifiedRenters(W, o) = {} THEN W
    ELSE CreateAgreement(W, o, SelectedRenter(W, o))

\* Variant of LandlordAgentStep: the capacity test counts the ACTIVE
\* agreements only.
LandlordAgentStep_CountsActive(W, o) ==
    IF Cardinality({i \in DOMAIN W.landlords[o].rental_agreements :
            W.all_agreements[W.landlords[o].rental_agreements[i]].status
                = "ACTIVE"}) < MaxProperties
    THEN ConsiderNewAgreement(W, o)
    ELSE W

\* Variant of LandlordAgentStep: an Owner holding MaxProperties agreements
\* may still create one.
LandlordAgentStep_OneMoreProperty(W, o) ==
    IF Len(W.landlords[o].rental_agreements) <= MaxProperties
    THEN ConsiderNewAgreement(W, o)
    ELSE W

LandlordAgentStep(W, o) ==
    IF Len(W.landlords[o].rental_agreements) < MaxProperties
    THEN ConsiderNewAgreement(W, o)
    ELSE W

(* ------------------------- RentalLoanModel ---------------------------- *)

StatusCount(records, status) ==
    Cardinality({i \in DOMAIN records : records[i].status = status})

\* Variant of AvgIncome: the sum is divided by the number of agents also when
\* there are none.
AvgIncome_NoEmptyGuard(agents) ==
    Ratio(SumSeq([i \in 1..Len(agents) |-> agents[i].total_income]),
          Len(agents))

\* avg_income_by_type
AvgIncome(agents) ==
    IF Len(agents) = 0 THEN Ratio(0, 1)
    ELSE Ratio(SumSeq([i \in 1..Len(agents) |-> agents[i].total_income]),
               Len(agents))

\* Variant of DefaultRate: the defaulted loans over the completed ones.
DefaultRate_OverCompleted(W) ==
    LET completed_loans == StatusCount(W.all_loans, "COMPLETED")
        defaulted_loans == StatusCount(W.all_loans, "DEFAULTED")
        total_loans == completed_loans + defaulted_loans
    IN  IF total_loans = 0 THEN Ratio(0, 1)
        ELSE Ratio(defaulted_loans, completed_loans)

\* calculate_default_rate
DefaultRate(W) ==
    LET completed_loans == StatusCount(W.all_loans, "COMPLETED")
        defaulted_loans == StatusCount(W.all_loans, "DEFAULTED")
        total_loans == completed_loans + defaulted_loans
    IN  IF total_loans = 0 THEN Ratio(0, 1)
        ELSE Ratio(defaulted_loans, total_loans)

TotalCollateralized(W) ==
    SumSeq([i \in 1..Len(W.all_agreements) |->
               W.all_agreements[i].collateralized_amount])

TotalDeposits(W) ==
    SumSeq([i \in 1..Len(W.all_agreements) |->
               W.all_agreements[i].security_deposit])

\* calculate_capital_efficiency
CapitalEfficiency(W) ==
    IF TotalDeposits(W) = 0 THEN Ratio(0, 1)
    ELSE Ratio(TotalCollateralized(W), TotalDeposits(W))

\* datacollector.collect: the model reporters, evaluated on the collections
\* as they stand.
Snapshot(W) ==
    [Active_Rentals |-> StatusCount(W.all_agreements, "ACTIVE"),
     Active_Loans |-> StatusCount(W.all_loans, "ACTIVE"),
     Completed_Loans |-> StatusCount(W.all_loans, "COMPLETED"),
     Defaulted_Loans |-> StatusCount(W.all_loans, "DEFAULTED"),
     Total_Collateralized |-> TotalCollateralized(W),
     Avg_Landlord_Income |-> AvgIncome(W.landlords),
     Avg_Lender_Income |-> AvgIncome(W.lenders),
     Loan_Default_Rate |-> DefaultRate(W),
     Capital_Efficiency |-> CapitalEfficiency(W)]

\* schedule.agents
Agents ==
    ({"Landlord"} \X DOMAIN landlords) \cup ({"Renter"} \X DOMAIN renters)
        \cup ({"Lender"} \X DOMAIN lenders)

\* The state RentalLoanModel.__init__ leaves: the populations in the
\* schedule, no agreement, no loan, and the snapshot collected at
\* initialization.  The Tenants enter the schedule by non-decreasing
\* stability, so that the Owner's descending sort has to reorder them; the
\* other orders differ from these by the Tenants' names only, the selection
\* going by stability and, among equals, by schedule order.
Init ==
    /\ \E n \in Populations :
         \E lp \in [1..n[1] -> LandlordParams],
            rp \in [1..n[2] -> RenterParams],
            kp \in [1..n[3] -> LenderParams] :
            /\ \A i \in 1..n[2] : \A j \in 1..n[2] :
                  i < j => rp[i].financial_stability
                              <= rp[j].financial_stability
            /\ landlords = [i \in 1..n[1] |-> NewLandlord(lp[i])]
            /\ renters = [i \in 1..n[2] |-> NewRenter(rp[i])]
            /\ lenders = [i \in 1..n[3] |-> NewLender(kp[i])]
    /\ all_agreements = <<>>
    /\ all_loans = <<>>
    /\ activated = {}
    /\ steps = 0
    /\ running = TRUE
    /\ model_vars = <<Snapshot([landlords |-> landlords, renters |-> renters,
                                lenders |-> lenders, all_agreements |-> <<>>,
                                all_loans |-> <<>>])>>

\* The parameters lie in the ranges RentalLoanModel.__init__ draws them from.
InModelRanges ==
    /\ \A o \in DOMAIN landlords :
          /\ landlords[o].risk_tolerance \in 30..80
          /\ landlords[o].property_value \in 100000..500000
    /\ \A r \in DOMAIN renters :
          /\ renters[r].income \in 2000..10000
          /\ renters[r].savings_rate \in 5..30
          /\ renters[r].financial_stability \in 1..10
    /\ \A k \in DOMAIN lenders :
          /\ lenders[k].available_funds \in 500000..2000000
          /\ lenders[k].interest_rate \in 5..25

\* Variant of InStep: the agents are activated by role, Owners before Tenants
\* before Lenders.
InStep_FixedRoleOrder(agent) ==
    /\ steps < MaxSteps
    /\ agent \notin activated
    /\ agent[1] # "Landlord" => ({"Landlord"} \X DOMAIN landlords) \subseteq activated
    /\ agent[1] = "Lender" => ({"Renter"} \X DOMAIN renters) \subseteq activated

\* schedule.step() activates every agent once, in an order shuffled anew in
\* every step: an agent not yet activated in this step is activated next.
InStep(agent) == steps < MaxSteps /\ agent \notin activated

LandlordStep(o) ==
    /\ InStep(<<"Landlord", o>>)
    /\ Install(LandlordAgentStep(World, o))
    /\ activated' = activated \cup {<<"Landlord", o>>}
    /\ UNCHANGED <<steps, running, model_vars>>

RenterStep(r) ==
    /\ InStep(<<"Renter", r>>)
    /\ \E need \in BOOLEAN :
          /\ need => /\ HasActiveAgreement(World, r)
                     /\ SumSeq([i \in 1..Len(renters) |->
                                   renters[i].months_with_liquidity_need])
                            < MaxLiquidityNeeds
          /\ Install(RenterAgentStep(World, r, need))
    /\ activated' = activated \cup {<<"Renter", r>>}
    /\ UNCHANGED <<steps, running, model_vars>>

LenderStep(k) ==
    /\ InStep(<<"Lender", k>>)
    /\ Install(LenderAgentStep(World, k))
    /\ activated' = activated \cup {<<"Lender", k>>}
    /\ UNCHANGED <<steps, running, model_vars>>

\* Variant of Collect: the snapshot of the step replaces the last one of the
\* series.
Collect_OverwritesLast ==
    /\ steps < MaxSteps
    /\ activated = Agents
    /\ steps' = steps + 1
    /\ activated' = {}
    /\ model_vars' = [model_vars EXCEPT ![Len(model_vars)] = Snapshot(World)]
    /\ running' = IF steps + 1 >= MaxSteps THEN FALSE ELSE running
    /\ UNCHANGED <<landlords, renters, lenders, all_agreements, all_loans>>

\* Variant of Collect: the run is stopped only once the step counter has
\* passed max_steps.
Collect_StopsLate ==
    /\ steps < MaxSteps
    /\ activated = Agents
    /\ steps' = steps + 1
    /\ activated' = {}
    /\ model_vars' = Append(model_vars, Snapshot(World))
    /\ running' = IF steps + 1 > MaxSteps THEN FALSE ELSE running
    /\ UNCHANGED <<landlords, renters, lenders, all_agreements, all_loans>>

\* RentalLoanModel.step after the last agent of schedule.step(): the step
\* counter advances, the snapshot is collected, the running flag is updated.
Collect ==
    /\ steps < MaxSteps
    /\ activated = Agents
    /\ steps' = steps + 1
    /\ activated' = {}
    /\ model_vars' = Append(model_vars, Snapshot(World))
    /\ running' = IF steps + 1 >= MaxSteps THEN FALSE ELSE running
    /\ UNCHANGED <<landlords, renters, lenders, all_agreements, all_loans>>

Next ==
    \/ \E o \in DOMAIN landlords : LandlordStep(o)
    \/ \E r \in DOMAIN renters : RenterStep(r)
    \/ \E k \in DOMAIN lenders : LenderStep(k)
    \/ Collect

Spec == Init /\ [][Next]_vars

(* The comparison model without loans: comparative_analysis.TraditionalModel. *)

\* make_rent_payment of a Tenant whose request_rent_loan may have been
\* replaced by "lambda: None".
TraditionalMakeRentPayment(W, r, disabled) ==
    LET a == W.renters[r].rental_agreement IN
    IF a = 0 THEN W
    ELSE IF W.all_agreements[a].status # "ACTIVE" THEN W
    ELSE IF W.renters[r].funds < W.all_agreements[a].monthly_rent * 2
         THEN IF disabled THEN W ELSE RequestRentLoan(W, r)
         ELSE PayRentDirectly(W, r)

TraditionalRenterAgentStep(W, r, need, disabled) ==
    IF HasActiveAgreement(W, r)
    THEN CheckLiquidityNeeds(
             TraditionalMakeRentPayment(
                 [W EXCEPT !.renters[r].funds = @ + Accrual(W, r)], r, disabled),
             r, need)
    ELSE W

\* TraditionalModel.step runs schedule.step() and replaces request_rent_loan
\* on every Tenant after it: the replacement is in place in the activations
\* of the second step and of every later one, and not in those of the first.
LoanRequestsDisabled == steps >= 1

TraditionalRenterStep(r) ==
    /\ InStep(<<"Renter", r>>)
    /\ \E need \in BOOLEAN :
          /\ need => /\ HasActiveAgreement(World, r)
                     /\ SumSeq([i \in 1..Len(renters) |->
                                   renters[i].months_with_liquidity_need])
                            < MaxLiquidityNeeds
          /\ Install(TraditionalRenterAgentStep(World, r, need,
                                                LoanRequestsDisabled))
    /\ activated' = activated \cup {<<"Renter", r>>}
    /\ UNCHANGED <<steps, running, model_vars>>

TraditionalNext ==
    \/ \E o \in DOMAIN landlords : LandlordStep(o)
    \/ \E r \in DOMAIN renters : TraditionalRenterStep(r)
    \/ \E k \in DOMAIN lenders : LenderStep(k)
    \/ Collect

\* TraditionalModel.__init__ hands its counts, the Lenders' included, to
\* RentalLoanModel.__init__.
SpecTraditional == Init /\ [][TraditionalNext]_vars

(* A run over one Owner's capacity: one Owner, six Tenants, one Lender.  *)

\* The six Tenants, in schedule order: every one qualifies and none can pay
\* the deposit; the third can pay; the first does not qualify.
CapacityRenters ==
    LET short == [income |-> 6000, savings_rate |-> 5, financial_stability |-> 8]
        solvent == [income |-> 6000, savings_rate |-> 10, financial_stability |-> 9]
        unstable == [income |-> 4000, savings_rate |-> 10, financial_stability |-> 3]
    IN  { <<short, short, short, short, short, short>>,
          <<short, short, solvent, short, short, short>>,
          <<unstable, short, short, short, short, short>> }

InitCapacity ==
    /\ landlords =
          <<NewLandlord([risk_tolerance |-> 50, property_value |-> 240000])>>
    /\ \E rp \in CapacityRenters :
          renters = [i \in 1..Len(rp) |-> NewRenter(rp[i])]
    /\ lenders =
          <<NewLender([available_funds |-> 500000, interest_rate |-> 10])>>
    /\ all_agreements = <<>>
    /\ all_loans = <<>>
    /\ activated = {}
    /\ steps = 0
    /\ running = TRUE
    /\ model_vars = <<Snapshot([landlords |-> landlords, renters |-> renters,
                                lenders |-> lenders, all_agreements |-> <<>>,
                                all_loans |-> <<>>])>>

SpecCapacity == InitCapacity /\ [][Next]_vars

(* ---------------------------- vocabulary ------------------------------ *)

Agreements == DOMAIN all_agreements

Loans == DOMAIN all_loans

LoansOfAgreement(a, status) ==
    {l \in Loans : all_loans[l].rental_agreement = a /\ all_loans[l].status = status}

LoansOfBorrower(r, status) ==
    {l \in Loans : all_loans[l].borrower = r /\ all_loans[l].status = status}

RECURSIVE SumOver(_, _)
SumOver(S, f) ==
    IF S = {} THEN 0
    ELSE LET x == CHOOSE y \in S : TRUE IN f[x] + SumOver(S \ {x}, f)

\* Collateral of agreement a forfeited to lenders so far.
Forfeited(a) ==
    SumOver(LoansOfAgreement(a, "DEFAULTED"),
            [l \in Loans |-> all_loans[l].collateral_amount])

\* With the parameters RentalLoanModel.__init__ draws, a renter whose deposit
\* was paid saves at least half a rent a month, and two loan payments
\* together stay below that: the default branch of make_loan_payment is not
\* reached.
NoDefaultInModelRanges ==
    InModelRanges => \A l \in Loans : all_loans[l].status # "DEFAULTED"

(* ------------------------------ claims -------------------------------- *)

C2_OneActiveLoanPerTenant ==
    \A r \in DOMAIN renters : Cardinality(LoansOfBorrower(r, "ACTIVE")) <= 1

\* C2 witness: a Tenant on its second loan, the first one repaid.
C2_Witness ==
    \E r \in DOMAIN renters :
        /\ LoansOfBorrower(r, "ACTIVE") # {}
        /\ LoansOfBorrower(r, "COMPLETED") # {}

\* C3: every ACTIVE agreement keeps current_deposit >= 2 * monthly_rent.
C3_TwoMonthsProtected ==
    \A a \in Agreements :
        all_agreements[a].status = "ACTIVE" =>
            all_agreements[a].current_deposit
                >= 2 * all_agreements[a].monthly_rent

\* C3 witness: an agreement at the floor after a default, its Tenant without
\* a loan and short of funds, and the model has stepped on since.
C3_Witness ==
    \E a \in Agreements :
        /\ all_agreements[a].status = "ACTIVE"
        /\ LoansOfAgreement(a, "DEFAULTED") # {}
        /\ all_agreements[a].current_deposit = 2 * all_agreements[a].monthly_rent
        /\ renters[all_agreements[a].renter].loan_agreement = 0
        /\ <<"Renter", all_agreements[a].renter>> \in activated
        /\ \E l \in LoansOfAgreement(a, "DEFAULTED") :
              all_loans[l].months_paid = 0

(* Activations, as actions: the agent is activated by this step. *)

Activates(agent) == agent \notin activated /\ agent \in activated'

\* The activation of Tenant r created a loan and the lender funded it.
OriginatesLoan(r) ==
    /\ Activates(<<"Renter", r>>)
    /\ Len(all_loans') = Len(all_loans) + 1
    /\ all_loans'[Len(all_loans')].borrower = r
    /\ all_loans'[Len(all_loans')].status = "ACTIVE"

\* The terms of the loan just created, and the transfers of its origination.
OriginationTerms(r) ==
    LET loan == all_loans'[Len(all_loans')]
        a == renters[r].rental_agreement
        rent == all_agreements[a].monthly_rent
        o == all_agreements[a].landlord
        k == loan.lender
    IN  /\ loan.loan_amount = rent
        /\ loan.collateral_amount = rent
        /\ loan.duration = 6
        /\ loan.monthly_payment * 600 = rent * (100 + lenders[k].interest_rate)
        /\ loan.rental_agreement = a
        /\ all_agreements'[a].current_deposit
              = all_agreements[a].current_deposit - rent
        /\ all_agreements'[a].collateralized_amount
              = all_agreements[a].collateralized_amount + rent
        /\ landlords'[o].total_income = landlords[o].total_income + rent
        /\ all_agreements'[a].months_active
              = all_agreements[a].months_active + 1
        /\ lenders'[k].available_funds = lenders[k].available_funds - rent

\* C4 (as claimed): a Tenant activation that originates a loan gives it
\* loan_amount = collateral_amount = rent, duration 6, monthly_payment =
\* rent * (1 + rate/100) / 6 and status ACTIVE, moves rent from current_deposit
\* to collateralized_amount, credits the Owner rent, adds 1 to months_active,
\* debits the Lender rent, and leaves the Tenant's funds unchanged.
C4_OriginationFundsUnchanged ==
    [][\A r \in DOMAIN renters :
          OriginatesLoan(r) =>
              /\ OriginationTerms(r)
              /\ renters'[r].funds = renters[r].funds]_vars

\* C4 (amended): as claimed, except that over the activation the Tenant's
\* funds grow by the month's savings income * savings_rate, accrued before the
\* rent decision; the origination itself neither credits nor debits them.
C4_OriginationFundsAccrued ==
    [][\A r \in DOMAIN renters :
          OriginatesLoan(r) =>
              /\ OriginationTerms(r)
              /\ renters'[r].funds * 100
                    = renters[r].funds * 100
                        + renters[r].income * renters[r].savings_rate]_vars

\* C4 witness: a loan funded at 10 per cent, just originated, no payment yet.
C4_Witness ==
    \E l \in Loans :
        /\ all_loans[l].status = "ACTIVE"
        /\ all_loans[l].months_paid = 0
        /\ all_loans[l].interest_rate = 10
        /\ all_loans[l].monthly_payment * 60 = all_loans[l].loan_amount * 11

\* The loan l is COMPLETED by this step.
Completes(l) ==
    all_loans[l].status # "COMPLETED" /\ all_loans'[l].status = "COMPLETED"

\* C5: a loan becomes COMPLETED exactly at the payment that brings
\* months_paid to its duration 6; that payment returns collateral_amount from
\* collateralized_amount to current_deposit and clears the Tenant's loan
\* reference; no COMPLETED loan has months_paid other than its duration and
\* months_paid never exceeds the duration.
C5_CompletionAtDuration ==
    /\ [](\A l \in Loans :
             /\ all_loans[l].months_paid <= all_loans[l].duration
             /\ all_loans[l].duration = 6
             /\ all_loans[l].status = "COMPLETED"
                    <=> all_loans[l].months_paid = all_loans[l].duration)
    /\ [][\A l \in Loans :
             LET a == all_loans[l].rental_agreement
                 r == all_loans[l].borrower
             IN  /\ Completes(l) <=>
                        /\ all_loans[l].months_paid < all_loans[l].duration
                        /\ all_loans'[l].months_paid = all_loans[l].duration
                 /\ Completes(l) =>
                        /\ all_loans[l].status = "ACTIVE"
                        /\ all_loans'[l].months_paid = all_loans[l].months_paid + 1
                        /\ renters[r].funds >= all_loans[l].monthly_payment
                        /\ all_agreements'[a].current_deposit =
                               all_agreements[a].current_deposit
                                   + all_loans[l].collateral_amount
                        /\ all_agreements'[a].collateralized_amount =
                               all_agreements[a].collateralized_amount
                                   - all_loans[l].collateral_amount
                        /\ renters[r].loan_agreement = l
                        /\ renters'[r].loan_agreement = 0]_vars

\* C5 witness: a repaid loan, its collateral back in the deposit.
C5_Witness ==
    \E l \in Loans :
        /\ all_loans[l].status = "COMPLETED"
        /\ all_loans[l].months_paid = 6
        /\ all_agreements[all_loans[l].rental_agreement].collateralized_amount = 0
        /\ all_agreements[all_loans[l].rental_agreement].current_deposit
              = all_agreements[all_loans[l].rental_agreement].security_deposit
        /\ renters[all_loans[l].borrower].loan_agreement = 0

\* The loan l is DEFAULTED by this step.
Defaults(l) ==
    all_loans[l].status = "ACTIVE" /\ all_loans'[l].status = "DEFAULTED"

\* The loan l received a payment in this step.
IsPaid(l) == all_loans'[l].months_paid > all_loans[l].months_paid

\* The loans of Lender k whose borrowers cannot pay the instalment.
ShortLoans(k) ==
    {l \in Loans : /\ all_loans[l].lender = k
                   /\ all_loans[l].status = "ACTIVE"
                   /\ renters[all_loans[l].borrower].funds
                          < all_loans[l].monthly_payment}

\* The effect of the loan-payment procedure on borrower r in world W, for a
\* borrower short of the instalment.
DefaultEffect(W, r) ==
    LET l == W.renters[r].loan_agreement
        a == W.all_loans[l].rental_agreement
        k == W.all_loans[l].lender
        V == MakeLoanPayment(W, r)
    IN  /\ V.all_loans[l].status = "DEFAULTED"
        /\ V.renters[r].funds = W.renters[r].funds
        /\ V.renters[r].total_loan_costs = W.renters[r].total_loan_costs
        /\ V.all_loans[l].months_paid = W.all_loans[l].months_paid
        /\ V.lenders[k].total_income = W.lenders[k].total_income
        /\ V.lenders[k].available_funds =
               W.lenders[k].available_funds + W.all_loans[l].collateral_amount
        /\ V.all_agreements[a].collateralized_amount =
               W.all_agreements[a].collateralized_amount
                   - W.all_loans[l].collateral_amount
        /\ V.all_agreements[a].current_deposit =
               W.all_agreements[a].current_deposit
        /\ V.renters[r].loan_agreement = 0

\* C6: the loan-payment procedure run on an ACTIVE loan whose borrower has
\* less than monthly_payment defaults the loan in that call, with no partial
\* payment: funds, months_paid and the Lender's total_income stay, the
\* Lender's available_funds grow by collateral_amount, collateralized_amount
\* shrinks by it, current_deposit stays, the loan reference is cleared.  Over
\* a Lender activation: every loan of its short borrowers defaults, only
\* those default, and the Lender's total_income grows by the instalments of
\* the other borrowers alone.
C6_DefaultWithoutPartialPayment ==
    /\ [](\A r \in DOMAIN renters :
             (/\ renters[r].loan_agreement # 0
              /\ all_loans[renters[r].loan_agreement].status = "ACTIVE"
              /\ renters[r].funds
                    < all_loans[renters[r].loan_agreement].monthly_payment)
                 => DefaultEffect(World, r))
    /\ [][\A k \in DOMAIN lenders :
             /\ Activates(<<"Lender", k>>) =>
                   /\ \A l \in ShortLoans(k) : Defaults(l)
                   /\ lenders'[k].available_funds =
                          lenders[k].available_funds
                            + SumOver(ShortLoans(k),
                                [l \in Loans |-> all_loans[l].collateral_amount])
                   /\ lenders'[k].total_income =
                          lenders[k].total_income
                            + SumOver({l \in Loans : all_loans[l].lender = k
                                                      /\ IsPaid(l)},
                                [l \in Loans |-> all_loans[l].monthly_payment])
             /\ \A l \in Loans :
                   (all_loans[l].lender = k /\ Defaults(l)) =>
                       LET r == all_loans[l].borrower
                           a == all_loans[l].rental_agreement
                       IN  /\ l \in ShortLoans(k)
                           /\ Activates(<<"Lender", k>>)
                           /\ renters'[r].funds = renters[r].funds
                           /\ all_loans'[l].months_paid = all_loans[l].months_paid
                           /\ all_agreements'[a].collateralized_amount =
                                  all_agreements[a].collateralized_amount
                                      - all_loans[l].collateral_amount
                           /\ all_agreements'[a].current_deposit =
                                  all_agreements[a].current_deposit
                           /\ renters[r].loan_agreement = l
                           /\ renters'[r].loan_agreement = 0]_vars

\* C6 witness: a loan defaulted at its third payment, the collateral with
\* the Lender, the borrower's reference cleared.
C6_Witness ==
    \E l \in Loans :
        /\ all_loans[l].status = "DEFAULTED"
        /\ all_loans[l].months_paid = 2
        /\ renters[all_loans[l].borrower].loan_agreement = 0
        /\ lenders[all_loans[l].lender].defaults_recovered
              >= all_loans[l].collateral_amount
        /\ all_agreements[all_loans[l].rental_agreement].collateralized_amount = 0

\* C7: a loan's status changes only INITIALIZED -> ACTIVE, ACTIVE ->
\* COMPLETED, ACTIVE -> DEFAULTED; a COMPLETED or DEFAULTED loan never
\* changes again in status or months_paid; a loan enters all_loans
\* INITIALIZED or ACTIVE with nothing paid.
C7_LoanStatusTransitions ==
    [][/\ Len(all_loans') >= Len(all_loans)
       /\ \A l \in DOMAIN all_loans' :
             IF l \in Loans
             THEN /\ \/ all_loans'[l].status = all_loans[l].status
                     \/ <<all_loans[l].status, all_loans'[l].status>> \in
                           { <<"INITIALIZED", "ACTIVE">>,
                             <<"ACTIVE", "COMPLETED">>,
                             <<"ACTIVE", "DEFAULTED">> }
                  /\ all_loans[l].status \in {"COMPLETED", "DEFAULTED"}
                        => all_loans'[l] = all_loans[l]
             ELSE /\ all_loans'[l].status \in {"INITIALIZED", "ACTIVE"}
                  /\ all_loans'[l].months_paid = 0]_vars

\* C7 witness: a repaid loan and a defaulted loan, both left behind by
\* borrowers that the Lender was activated for again.
C7_Witness ==
    /\ \E l \in Loans : all_loans[l].status = "COMPLETED"
    /\ \E l \in Loans :
          /\ all_loans[l].status = "DEFAULTED"
          /\ steps >= 3

\* The activation of Owner o created an agreement.
CreatesAgreement(o) ==
    /\ Activates(<<"Landlord", o>>)
    /\ Len(all_agreements') = Len(all_agreements) + 1

\* C8: when an Owner creates an agreement with Tenant T, then if T's funds
\* cover security_deposit they decrease by exactly security_deposit and the
\* agreement is ACTIVE at the end of the Owner's activation; otherwise T's
\* funds are unchanged and the agreement stays INITIALIZED.
C8_DepositOrInitialized ==
    [][\A o \in DOMAIN landlords :
          CreatesAgreement(o) =>
              LET a == Len(all_agreements')
                  t == all_agreements'[a].renter
                  deposit == all_agreements'[a].security_deposit
              IN  /\ all_agreements'[a].landlord = o
                  /\ renters[t].rental_agreement = 0
                  /\ renters'[t].rental_agreement = a
                  /\ IF renters[t].funds >= deposit
                     THEN /\ renters'[t].funds = renters[t].funds - deposit
                          /\ all_agreements'[a].status = "ACTIVE"
                     ELSE /\ renters'[t].funds = renters[t].funds
                          /\ all_agreements'[a].status = "INITIALIZED"]_vars

\* C8 witness: a Tenant that paid its deposit to the last cent, and a Tenant
\* that could not pay.
C8_Witness ==
    /\ \E a \in Agreements :
          /\ all_agreements[a].status = "ACTIVE"
          /\ renters[all_agreements[a].renter].funds = 0
    /\ \E a \in Agreements :
          /\ all_agreements[a].status = "INITIALIZED"
          /\ renters[all_agreements[a].renter].funds > 0
          /\ steps >= 2

\* C9: an ACTIVE agreement is ACTIVE in every later state, and
\* Active_Rentals never decreases from one snapshot to the next.
C9_ActiveIsTerminal ==
    /\ [][\A a \in Agreements :
             all_agreements[a].status = "ACTIVE"
                 => /\ a \in DOMAIN all_agreements'
                    /\ all_agreements'[a].status = "ACTIVE"]_vars
    /\ [](\A i \in DOMAIN model_vars : \A j \in DOMAIN model_vars :
             i <= j => model_vars[i].Active_Rentals
                          <= model_vars[j].Active_Rentals)

\* C9 witness: an ACTIVE agreement that went through a default and was
\* counted in at least three snapshots.
C9_Witness ==
    /\ \E a \in Agreements :
          /\ all_agreements[a].status = "ACTIVE"
          /\ LoansOfAgreement(a, "DEFAULTED") # {}
    /\ Len(model_vars) >= 4
    /\ model_vars[Len(model_vars) - 2].Active_Rentals >= 1

InUnitInterval(q) == q.den > 0 /\ 0 <= q.num /\ q.num <= q.den

\* C10: in every snapshot Loan_Default_Rate and Capital_Efficiency lie in
\* [0,1]; the default rate is 0 while no loan is COMPLETED or DEFAULTED and
\* the capital efficiency is 0 while there is no agreement.
C10_RatesInUnitInterval ==
    /\ \A i \in DOMAIN model_vars :
          /\ InUnitInterval(model_vars[i].Loan_Default_Rate)
          /\ InUnitInterval(model_vars[i].Capital_Efficiency)
          /\ model_vars[i].Completed_Loans + model_vars[i].Defaulted_Loans = 0
                => model_vars[i].Loan_Default_Rate.num = 0
          /\ model_vars[i].Completed_Loans + model_vars[i].Defaulted_Loans > 0
                => /\ model_vars[i].Loan_Default_Rate.num
                         = model_vars[i].Defaulted_Loans
                   /\ model_vars[i].Loan_Default_Rate.den
                         = model_vars[i].Completed_Loans
                             + model_vars[i].Defaulted_Loans
          /\ model_vars[i].Capital_Efficiency.num > 0
                => model_vars[i].Capital_Efficiency.num
                       = model_vars[i].Total_Collateralized
    /\ InUnitInterval(DefaultRate(World))
    /\ InUnitInterval(CapitalEfficiency(World))
    /\ Len(all_agreements) = 0 => CapitalEfficiency(World).num = 0
    /\ Len(all_agreements) > 0 =>
          /\ CapitalEfficiency(World).den = TotalDeposits(World)
          /\ CapitalEfficiency(World).num = TotalCollateralized(World)
    /\ activated = {} => model_vars[Len(model_vars)] = Snapshot(World)

\* C10 witness: snapshots with no loan settled, with every settled loan
\* defaulted, and with part of the deposits collateralized.
C10_Witness ==
    /\ \E i \in DOMAIN model_vars :
          /\ model_vars[i].Completed_Loans + model_vars[i].Defaulted_Loans = 0
          /\ model_vars[i].Capital_Efficiency.num > 0
    /\ \E i \in DOMAIN model_vars :
          /\ model_vars[i].Loan_Default_Rate.num = 1
          /\ model_vars[i].Loan_Default_Rate.den = 1
    /\ \E i \in DOMAIN model_vars :
          /\ model_vars[i].Loan_Default_Rate.num = 1
          /\ model_vars[i].Loan_Default_Rate.den = 2

\* The world with every liquidity-need counter set to 0: what a run without
\* any liquidity need would hold.
Erase(W) ==
    [W EXCEPT !.renters =
        [i \in DOMAIN W.renters |->
            [W.renters[i] EXCEPT !.months_with_liquidity_need = 0]]]

\* The objects as the step leaves them.
WorldNext ==
    [landlords |-> landlords', renters |-> renters', lenders |-> lenders',
     all_agreements |-> all_agreements', all_loans |-> all_loans']

\* C11: the metric time series is a function of the initial attributes and
\* the activation order alone.  Whatever the coin flips so far and in this
\* activation, an activation leaves the state that the run without any
\* liquidity need reaches by the same activation, up to the liquidity-need
\* counters; the counters enter no metric; hence two runs with the same
\* attributes and activation orders record the same snapshots, one by one,
\* with the same or with different coin flips.
C11_MetricsIgnoreCoinFlips ==
    /\ [](/\ Snapshot(World) = Snapshot(Erase(World))
          /\ \A r \in DOMAIN renters :
                Erase(RenterAgentStep(World, r, TRUE))
                    = Erase(RenterAgentStep(World, r, FALSE)))
    /\ [][/\ \A o \in DOMAIN landlords :
                Activates(<<"Landlord", o>>) =>
                    Erase(WorldNext) = LandlordAgentStep(Erase(World), o)
          /\ \A r \in DOMAIN renters :
                Activates(<<"Renter", r>>) =>
                    Erase(WorldNext) = RenterAgentStep(Erase(World), r, FALSE)
          /\ \A k \in DOMAIN lenders :
                Activates(<<"Lender", k>>) =>
                    Erase(WorldNext) = LenderAgentStep(Erase(World), k)
          /\ model_vars' # model_vars =>
                model_vars' = Append(model_vars, Snapshot(Erase(World)))]_vars

\* C11 witness: a Tenant with a month of liquidity need and a loan behind
\* it, in a run that has recorded snapshots of that loan.
C11_Witness ==
    /\ \E r \in DOMAIN renters :
          /\ renters[r].months_with_liquidity_need > 0
          /\ LoansOfBorrower(r, "COMPLETED") \cup LoansOfBorrower(r, "DEFAULTED") # {}
    /\ Len(model_vars) >= 4
    /\ model_vars[Len(model_vars)].Completed_Loans
          + model_vars[Len(model_vars)].Defaulted_Loans > 0

\* C12 (as claimed): a model exists only for non-zero owner, tenant and
\* lender counts; a configuration with a zero count is rejected at
\* construction, so no state of a run has an empty population.
C12_ZeroPopulationsRejected ==
    /\ Len(landlords) > 0
    /\ Len(renters) > 0
    /\ Len(lenders) > 0

\* C12 (amended): a zero owner, tenant or lender count is not rejected.
\* Construction records its snapshot, with every count 0 and the average
\* income of an empty role 0 (nothing is divided by zero), and the run steps
\* on: one snapshot per step taken, no agreement ever without Owners or
\* without Tenants, no loan ever without Lenders.
C12_ZeroPopulationsAccepted ==
    /\ Len(model_vars) = steps + 1
    /\ model_vars[1].Active_Rentals = 0
    /\ model_vars[1].Active_Loans = 0
    /\ model_vars[1].Total_Collateralized = 0
    /\ \A i \in DOMAIN model_vars :
          /\ model_vars[i].Avg_Landlord_Income.den > 0
          /\ model_vars[i].Avg_Lender_Income.den > 0
          /\ Len(landlords) = 0 => model_vars[i].Avg_Landlord_Income.num = 0
          /\ Len(lenders) = 0 => model_vars[i].Avg_Lender_Income.num = 0
          /\ Len(landlords) > 0 =>
                model_vars[i].Avg_Landlord_Income.den = Len(landlords)
          /\ Len(lenders) > 0 =>
                model_vars[i].Avg_Lender_Income.den = Len(lenders)
    /\ (Len(landlords) = 0 \/ Len(renters) = 0) => all_agreements = <<>>
    /\ Len(lenders) = 0 => all_loans = <<>>

\* C12 witness: a run built with no Lender, two steps on, its Tenant paying
\* rent.
C12_Witness ==
    /\ Len(lenders) = 0
    /\ steps >= 2
    /\ \E a \in Agreements :
          /\ all_agreements[a].status = "ACTIVE"
          /\ all_agreements[a].months_active >= 1

\* The agreement-less Tenants that qualify for Owner o:
\* stability/10 >= 1 - risk_tolerance.
Candidates(o) ==
    {r \in DOMAIN renters :
        /\ renters[r].rental_agreement = 0
        /\ renters[r].financial_stability * 10
              >= 100 - landlords[o].risk_tolerance}

\* The activation of Owner o creates exactly one agreement, with a Tenant of
\* greatest stability among its candidates.
CreatesWithMostStable(o) ==
    /\ Len(all_agreements') = Len(all_agreements) + 1
    /\ Len(landlords'[o].rental_agreements)
          = Len(landlords[o].rental_agreements) + 1
    /\ LET new == all_agreements'[Len(all_agreements')] IN
          /\ new.landlord = o
          /\ new.renter \in Candidates(o)
          /\ \A q \in Candidates(o) :
                renters[new.renter].financial_stability
                    >= renters[q].financial_stability
          /\ renters'[new.renter].rental_agreement = Len(all_agreements')

\* The number of ACTIVE agreements of Owner o.
ActiveAgreements(o) ==
    Cardinality({a \in Agreements :
        all_agreements[a].landlord = o /\ all_agreements[a].status = "ACTIVE"})

\* C13 (as claimed): an Owner activated with fewer than 5 ACTIVE agreements
\* and at least one candidate creates exactly one agreement, with a candidate
\* of greatest stability.
C13_CapacityCountsActive ==
    [][\A o \in DOMAIN landlords :
          (/\ Activates(<<"Landlord", o>>)
           /\ ActiveAgreements(o) < 5
           /\ Candidates(o) # {})
              => CreatesWithMostStable(o)]_vars

\* C13 (amended): the capacity counts the Owner's agreements of any status.
\* An Owner activated with fewer than 5 agreements, ACTIVE or INITIALIZED,
\* and at least one candidate creates exactly one agreement, with a candidate
\* of greatest stability; an Owner with 5 agreements, or without a candidate,
\* creates none.
C13_CapacityCountsAgreements ==
    [][\A o \in DOMAIN landlords :
          Activates(<<"Landlord", o>>) =>
              IF /\ Len(landlords[o].rental_agreements) < 5
                 /\ Candidates(o) # {}
              THEN CreatesWithMostStable(o)
              ELSE all_agreements' = all_agreements]_vars

\* C13 witness: an Owner holding 5 agreements, not all of them ACTIVE, was
\* activated while a candidate is left without an agreement.
C13_Witness ==
    \E o \in DOMAIN landlords :
        /\ Len(landlords[o].rental_agreements) = 5
        /\ ActiveAgreements(o) < 5
        /\ Candidates(o) # {}
        /\ <<"Landlord", o>> \in activated
        /\ steps >= 5

\* The scenario of one Owner (property_value 200, risk_tolerance 0.5), one
\* Tenant (income 5, savings rate 0.1, stability 10) and no Lender, as
\* constructed.
ScenarioWorld ==
    [landlords |->
        <<NewLandlord([risk_tolerance |-> 50, property_value |-> 200000])>>,
     renters |->
        <<NewRenter([income |-> 5000, savings_rate |-> 10,
                     financial_stability |-> 10])>>,
     lenders |-> <<>>, all_agreements |-> <<>>, all_loans |-> <<>>]

\* The one agreement of the scenario: rent 1.0, deposit 3.0, ACTIVE.
ScenarioAgreement(W) ==
    /\ Len(W.all_agreements) = 1
    /\ W.all_agreements[1].monthly_rent = 1000
    /\ W.all_agreements[1].security_deposit = 3000
    /\ W.all_agreements[1].grace_period = 3
    /\ W.all_agreements[1].status = "ACTIVE"

\* The first step of the scenario, the Owner activated before the Tenant and
\* the Tenant before the Owner.
ScenarioInEitherOrder ==
    /\ ScenarioAgreement(
           RenterAgentStep(LandlordAgentStep(ScenarioWorld, 1), 1, FALSE))
    /\ ScenarioAgreement(
           LandlordAgentStep(RenterAgentStep(ScenarioWorld, 1, FALSE), 1))

\* C14: with one Owner, one Tenant that qualifies for it and whose initial
\* funds income * 6 * savings_rate cover the deposit, and no Lender, from the
\* end of the first step on exactly one agreement exists, between the two,
\* with monthly_rent = 0.005 * property_value, security_deposit =
\* 3 * monthly_rent, grace_period 3 and status ACTIVE, whichever of the two
\* was activated first; property_value 200 gives rent 1.0 and deposit 3.0 in
\* either order.
C14_SingleAgreementAfterFirstStep ==
    /\ (/\ Len(landlords) = 1
        /\ Len(renters) = 1
        /\ Len(lenders) = 0
        /\ renters[1].financial_stability * 10
              >= 100 - landlords[1].risk_tolerance
        /\ renters[1].income * 6 * renters[1].savings_rate * 10
              >= 3 * 5 * landlords[1].property_value
        /\ steps >= 1)
          => /\ Len(all_agreements) = 1
             /\ all_agreements[1].landlord = 1
             /\ all_agreements[1].renter = 1
             /\ all_agreements[1].monthly_rent * 1000
                   = 5 * landlords[1].property_value
             /\ all_agreements[1].security_deposit
                   = 3 * all_agreements[1].monthly_rent
             /\ all_agreements[1].grace_period = 3
             /\ all_agreements[1].status = "ACTIVE"
    /\ ScenarioInEitherOrder

\* C14 witness: the end of the first step of such a run in which the Tenant
\* was activated before the Owner: the agreement is ACTIVE and no rent has
\* been paid yet.
C14_Witness ==
    /\ Len(landlords) = 1
    /\ Len(renters) = 1
    /\ Len(lenders) = 0
    /\ steps = 1
    /\ activated = {}
    /\ Len(all_agreements) = 1
    /\ all_agreements[1].status = "ACTIVE"
    /\ all_agreements[1].months_active = 0
    /\ landlords[1].total_income = 0

\* What the claim says of the available collateral c of deposit d and rent r.
ClampedAtTwoRents(c, d, r) ==
    /\ c >= 0
    /\ d <= 2 * r => c = 0
    /\ d > 2 * r => c = d - 2 * r

\* Both formulas, on every deposit and rent up to MaxAmount.
ClampedOnAllInputs ==
    \A d \in 0..MaxAmount : \A r \in 0..MaxAmount :
        /\ ClampedAtTwoRents(AvailableCollateral(d, r), d, r)
        /\ ClampedAtTwoRents(CalculateAvailableCollateral(d, r), d, r)
        /\ AvailableCollateral(d, r) = CalculateAvailableCollateral(d, r)

\* C15: for every deposit and rent >= 0 the available collateral of the
\* simulation's inline formula is never negative, is 0 whenever deposit <=
\* 2 * rent (the boundary deposit = 2 * rent included) and is deposit -
\* 2 * rent otherwise, and the Monte Carlo helper
\* calculate_available_collateral gives the same value; so it is for the
\* deposit and rent of every agreement of a run.
C15_CollateralClamped ==
    /\ ClampedOnAllInputs
    /\ \A a \in Agreements :
          LET d == all_agreements[a].current_deposit
              r == all_agreements[a].monthly_rent
          IN  /\ ClampedAtTwoRents(AvailableCollateral(d, r), d, r)
              /\ AvailableCollateral(d, r) = CalculateAvailableCollateral(d, r)

\* C15 witness: a Tenant without a loan and short of funds was activated
\* with its deposit at the boundary of two rents, so that the formula
\* clamped to 0 and no loan was asked for.
C15_Witness ==
    \E a \in Agreements :
        /\ all_agreements[a].status = "ACTIVE"
        /\ all_agreements[a].current_deposit = 2 * all_agreements[a].monthly_rent
        /\ all_agreements[a].collateralized_amount = 0
        /\ renters[all_agreements[a].renter].loan_agreement = 0
        /\ renters[all_agreements[a].renter].funds
              < 2 * all_agreements[a].monthly_rent
        /\ <<"Renter", all_agreements[a].renter>> \in activated
        /\ steps >= 2
        /\ AvailableCollateral(all_agreements[a].current_deposit,
                               all_agreements[a].monthly_rent) = 0

\* The objects as one complete activation of agent x may leave them.
ActivationResults(x) ==
    CASE x[1] = "Landlord" -> {LandlordAgentStep(World, x[2])}
      [] x[1] = "Renter" ->
            {RenterAgentStep(World, x[2], need) : need \in BOOLEAN}
      [] x[1] = "Lender" -> {LenderAgentStep(World, x[2])}

\* C16: within a step every agent is activated exactly once: the agents
\* activated so far are agents of the schedule, each transition is either one
\* complete activation of an agent not yet activated in this step or the end
\* of a step in which all have been activated; and while a step is under way
\* the scheduler admits every agent not yet activated as the next one,
\* whatever its role and whatever the orders of the steps before, so that
\* every permutation is a possible order.
C16_EachAgentOncePerStep ==
    /\ [](/\ activated \subseteq Agents
          /\ steps < MaxSteps =>
                \A x \in Agents \ activated : InStep(x))
    /\ [][\/ \E x \in Agents \ activated :
                /\ activated' = activated \cup {x}
                /\ steps' = steps
                /\ WorldNext \in ActivationResults(x)
          \/ /\ activated = Agents
             /\ activated' = {}
             /\ steps' = steps + 1
             /\ WorldNext = World]_vars

\* C16 witness: a step in which the Lender and then the Tenant went before
\* the Owner, after a step of another order that gave the Tenant its
\* agreement before its own activation.
C16_Witness ==
    /\ steps >= 1
    /\ DOMAIN landlords # {}
    /\ activated = {<<"Lender", 1>>, <<"Renter", 1>>}
    /\ \E a \in Agreements : all_agreements[a].months_active >= steps + 1

\* The model reporters of lines 312-320, counted over the collections.
Metrics(agreements, loans) ==
    [Active_Rentals |->
        Cardinality({a \in DOMAIN agreements : agreements[a].status = "ACTIVE"}),
     Active_Loans |->
        Cardinality({l \in DOMAIN loans : loans[l].status = "ACTIVE"}),
     Completed_Loans |->
        Cardinality({l \in DOMAIN loans : loans[l].status = "COMPLETED"}),
     Defaulted_Loans |->
        Cardinality({l \in DOMAIN loans : loans[l].status = "DEFAULTED"}),
     Total_Collateralized |->
        SumOver(DOMAIN agreements,
                [a \in DOMAIN agreements |-> agreements[a].collateralized_amount])]

\* The counts and the collateral total of snapshot s are those of the
\* collections given.
RecordsMetrics(s, agreements, loans) ==
    LET m == Metrics(agreements, loans) IN
    /\ s.Active_Rentals = m.Active_Rentals
    /\ s.Active_Loans = m.Active_Loans
    /\ s.Completed_Loans = m.Completed_Loans
    /\ s.Defaulted_Loans = m.Defaulted_Loans
    /\ s.Total_Collateralized = m.Total_Collateralized

\* C17: after construction and k steps the series holds k + 1 snapshots, the
\* first that of construction (no agreement, no loan).  The series changes
\* only at the end of a step, when every agent of the step has acted, and
\* then by one snapshot appended, computed from the collections as they stand
\* at that moment; the snapshots recorded before are left as they were.
C17_OneSnapshotPerStep ==
    /\ [](/\ Len(model_vars) = steps + 1
          /\ RecordsMetrics(model_vars[1], <<>>, <<>>)
          /\ activated = {} =>
                RecordsMetrics(model_vars[Len(model_vars)],
                               all_agreements, all_loans))
    /\ [][/\ SubSeq(model_vars', 1, Len(model_vars)) = model_vars
          /\ (steps' # steps \/ model_vars' # model_vars) =>
                /\ activated = Agents
                /\ steps' = steps + 1
                /\ Len(model_vars') = Len(model_vars) + 1
                /\ RecordsMetrics(model_vars'[Len(model_vars')],
                                  all_agreements, all_loans)
                /\ model_vars'[Len(model_vars')] = Snapshot(World)
                /\ WorldNext = World]_vars

\* C17 witness: a series of at least four snapshots whose last three differ
\* from one another: a loan taken, then repaid or defaulted.
C17_Witness ==
    /\ Len(model_vars) >= 4
    /\ activated = {}
    /\ model_vars[Len(model_vars) - 2].Active_Loans = 0
    /\ model_vars[Len(model_vars) - 2].Active_Rentals = 1
    /\ model_vars[Len(model_vars) - 1].Active_Loans = 1
    /\ model_vars[Len(model_vars)].Active_Loans = 0
    /\ model_vars[Len(model_vars)].Defaulted_Loans = 1

\* The progress of a run: activations and step ends so far.
Progress == steps * (Cardinality(Agents) + 1) + Cardinality(activated)

\* C18: a run with step budget MaxSteps takes exactly MaxSteps steps and then
\* stops.  The step counter never passes the budget; the running flag is true
\* while fewer than MaxSteps steps have been taken and false once MaxSteps
\* have; before the last step has ended the run can always go on, by the
\* activation of an agent or by the end of the step; every transition is
\* taken before the budget is used up and advances the progress by one, so
\* that the run ends, after MaxSteps * (agents + 1) transitions, with
\* MaxSteps steps taken.
C18_TerminatesAfterBudget ==
    /\ [](/\ steps \in 0..MaxSteps
          /\ running <=> steps < MaxSteps
          /\ Progress <= MaxSteps * (Cardinality(Agents) + 1)
          /\ steps < MaxSteps =>
                \/ \E x \in Agents \ activated : InStep(x)
                \/ ENABLED Collect
          /\ steps = MaxSteps => activated = {} /\ ~ENABLED Collect)
    /\ [][/\ steps < MaxSteps
          /\ Progress' = Progress + 1
          /\ steps' = steps \/ steps' = steps + 1]_vars

\* C18 witness: the end of a run of three agents, the flag lowered, with a
\* loan taken on the way.
C18_Witness ==
    /\ steps = MaxSteps
    /\ ~running
    /\ Len(model_vars) = MaxSteps + 1
    /\ Cardinality(Agents) = 3
    /\ all_loans # <<>>

\* C19: the activation of a Tenant without an ACTIVE agreement changes no
\* object.  The activation of a Tenant holding one first adds income *
\* savings_rate to its funds; if the funds then reach 2 * monthly_rent, rent
\* leaves the funds, the Owner's total_income grows by rent, months_active by
\* 1, months_in_default is 0 and no loan is created; if they do not, the
\* funds keep the accrued amount, and the Owner is paid and months_active
\* grows only if a loan was created, by the origination.
C19_RentFromFundsOrLoan ==
    [][\A r \in DOMAIN renters :
          Activates(<<"Renter", r>>) =>
              LET a == renters[r].rental_agreement IN
              IF a = 0 \/ all_agreements[a].status # "ACTIVE"
              THEN WorldNext = World
              ELSE LET rent == all_agreements[a].monthly_rent
                       o == all_agreements[a].landlord
                       accrued == renters[r].funds * 100
                                    + renters[r].income * renters[r].savings_rate
                   IN  IF accrued >= 2 * rent * 100
                       THEN /\ renters'[r].funds * 100 = accrued - rent * 100
                            /\ landlords'[o].total_income
                                  = landlords[o].total_income + rent
                            /\ all_agreements'[a].months_active
                                  = all_agreements[a].months_active + 1
                            /\ all_agreements'[a].months_in_default = 0
                            /\ all_loans' = all_loans
                            /\ renters'[r].loan_agreement
                                  = renters[r].loan_agreement
                            /\ lenders' = lenders
                            /\ all_agreements'[a].current_deposit
                                  = all_agreements[a].current_deposit
                       ELSE /\ renters'[r].funds * 100 = accrued
                            /\ IF Len(all_loans') = Len(all_loans)
                               THEN /\ all_loans' = all_loans
                                    /\ landlords' = landlords
                                    /\ all_agreements' = all_agreements
                                    /\ lenders' = lenders
                               ELSE /\ Len(all_loans') = Len(all_loans) + 1
                                    /\ landlords'[o].total_income
                                          = landlords[o].total_income + rent
                                    /\ all_agreements'[a].months_active
                                          = all_agreements[a].months_active + 1]_vars

\* C19 witness: four steps of a run with a Lender, in which a Tenant was
\* first activated before it had an agreement and has since paid its rent
\* from its funds three times, never borrowing.
C19_Witness ==
    /\ lenders # <<>>
    /\ steps = 4
    /\ activated = {}
    /\ \E a \in Agreements :
          /\ all_agreements[a].status = "ACTIVE"
          /\ all_agreements[a].months_active = 3
          /\ LoansOfBorrower(all_agreements[a].renter, "ACTIVE") = {}
          /\ LoansOfBorrower(all_agreements[a].renter, "COMPLETED") = {}
          /\ LoansOfBorrower(all_agreements[a].renter, "DEFAULTED") = {}
          /\ landlords[all_agreements[a].landlord].total_income
                = 3 * all_agreements[a].monthly_rent

\* The activation of Tenant r creates a loan.
CreatesLoan(r) ==
    /\ Activates(<<"Renter", r>>)
    /\ Len(all_loans') > Len(all_loans)

\* The Lenders able to lend rent.
LendersWith(rent) ==
    {k \in DOMAIN lenders : lenders[k].available_funds >= rent}

\* The four conditions of the claim on Tenant r, its funds taken at the rent
\* decision (after the month's accrual when the agreement is ACTIVE).
LoanConditions(r) ==
    LET a == renters[r].rental_agreement IN
    /\ a # 0
    /\ LET rent == all_agreements[a].monthly_rent
           funds100 == IF all_agreements[a].status = "ACTIVE"
                       THEN renters[r].funds * 100
                              + renters[r].income * renters[r].savings_rate
                       ELSE renters[r].funds * 100
       IN  /\ funds100 < 2 * rent * 100
           /\ renters[r].loan_agreement = 0
           /\ all_agreements[a].current_deposit - 2 * rent >= rent
           /\ LendersWith(rent) # {}

\* The loan just created is one of Tenant r with a Lender of least interest
\* rate among those able to lend the rent.
CheapestLender(r) ==
    LET loan == all_loans'[Len(all_loans')]
        rent == all_agreements[renters[r].rental_agreement].monthly_rent
    IN  /\ Len(all_loans') = Len(all_loans) + 1
        /\ loan.borrower = r
        /\ loan.lender \in LendersWith(rent)
        /\ \A j \in LendersWith(rent) :
              lenders[loan.lender].interest_rate <= lenders[j].interest_rate
        /\ loan.interest_rate = lenders[loan.lender].interest_rate

\* C20 (as claimed): a Tenant's activation creates a loan if and only if the
\* Tenant's funds are below 2 * rent, it holds no loan, current_deposit -
\* 2 * rent >= rent and some Lender has available_funds >= rent; the loan's
\* Lender has the least interest rate among the Lenders able to lend.
C20_LoanIffFourConditions ==
    [][\A r \in DOMAIN renters :
          Activates(<<"Renter", r>>) =>
              /\ CreatesLoan(r) <=> LoanConditions(r)
              /\ CreatesLoan(r) => CheapestLender(r)]_vars

\* C20 (amended): as claimed, for a Tenant whose agreement is ACTIVE; a
\* Tenant whose agreement is not ACTIVE creates no loan even when the four
\* conditions hold; and no loan is created outside a Tenant's activation.
C20_LoanIffActiveAndFourConditions ==
    [][/\ \A r \in DOMAIN renters :
             Activates(<<"Renter", r>>) =>
                 /\ CreatesLoan(r) <=>
                       /\ LoanConditions(r)
                       /\ all_agreements[renters[r].rental_agreement].status
                             = "ACTIVE"
                 /\ CreatesLoan(r) => CheapestLender(r)
       /\ Len(all_loans') # Len(all_loans) =>
             \E r \in DOMAIN renters : CreatesLoan(r)]_vars

\* C20 witness: a loan taken from the second Lender of the schedule, the
\* cheaper one, while the first was able to lend as well.
C20_Witness ==
    \E l \in Loans :
        /\ all_loans[l].lender = 2
        /\ all_loans[l].status = "ACTIVE"
        /\ lenders[1].interest_rate > lenders[2].interest_rate
        /\ lenders[1].available_funds >= all_loans[l].loan_amount
        /\ lenders[1].loans = <<>>

\* The loan-payment procedure ran on loan l in this step, once: one payment
\* was made, or the loan defaulted with nothing paid.
PaymentRunOnce(l) ==
    \/ /\ all_loans'[l].months_paid = all_loans[l].months_paid + 1
       /\ all_loans'[l].status \in {"ACTIVE", "COMPLETED"}
    \/ /\ all_loans'[l].months_paid = all_loans[l].months_paid
       /\ all_loans'[l].status = "DEFAULTED"

\* C21: loan repayment is driven by the Lender alone.  months_paid of a loan
\* changes, and the loan becomes COMPLETED or DEFAULTED, only in the
\* activation of the loan's Lender, never in an Owner's or a Tenant's, the
\* borrower's included; and an activation of Lender k runs the payment
\* procedure exactly once on every loan of k that is ACTIVE at its start, and
\* on no other loan.
C21_RepaymentDrivenByLender ==
    [][/\ \A l \in Loans :
             (\/ all_loans'[l].months_paid # all_loans[l].months_paid
              \/ Completes(l)
              \/ Defaults(l))
                 => /\ Activates(<<"Lender", all_loans[l].lender>>)
                    /\ all_loans[l].status = "ACTIVE"
       /\ \A k \in DOMAIN lenders :
             Activates(<<"Lender", k>>) =>
                 /\ \A l \in Loans :
                       IF all_loans[l].lender = k
                            /\ all_loans[l].status = "ACTIVE"
                       THEN PaymentRunOnce(l)
                       ELSE all_loans'[l] = all_loans[l]
                 /\ Len(all_loans') = Len(all_loans)
       /\ \A r \in DOMAIN renters :
             Activates(<<"Renter", r>>) =>
                 \A l \in Loans :
                     /\ all_loans'[l].months_paid = all_loans[l].months_paid
                     /\ all_loans'[l].status \in {"COMPLETED", "DEFAULTED"}
                           => all_loans'[l] = all_loans[l]]_vars

\* C21 witness: a Lender with loans of two borrowers, one paid and one
\* defaulted in its activations, and the paying borrower activated since
\* with its loan still ACTIVE and no further payment.
C21_Witness ==
    \E l \in Loans : \E m \in Loans :
        /\ all_loans[l].borrower # all_loans[m].borrower
        /\ all_loans[l].lender = all_loans[m].lender
        /\ all_loans[l].status = "ACTIVE"
        /\ all_loans[l].months_paid >= 1
        /\ all_loans[m].status = "DEFAULTED"
        /\ <<"Renter", all_loans[l].borrower>> \in activated
        /\ <<"Lender", all_loans[l].lender>> \notin activated

\* The effect of the loan-payment procedure on borrower r in world W, for a
\* borrower whose funds cover the instalment.
PaymentEffect(W, r) ==
    LET l == W.renters[r].loan_agreement
        a == W.all_loans[l].rental_agreement
        k == W.all_loans[l].lender
        payment == W.all_loans[l].monthly_payment
        V == MakeLoanPayment(W, r)
    IN  /\ V.renters[r].funds = W.renters[r].funds - payment
        /\ V.lenders[k].total_income = W.lenders[k].total_income + payment
        /\ V.renters[r].total_loan_costs
              = W.renters[r].total_loan_costs + payment
        /\ V.all_loans[l].months_paid = W.all_loans[l].months_paid + 1
        /\ V.lenders[k].available_funds = W.lenders[k].available_funds
        /\ V.all_loans[l].status # "COMPLETED" =>
              /\ V.all_agreements[a].current_deposit
                    = W.all_agreements[a].current_deposit
              /\ V.all_agreements[a].collateralized_amount
                    = W.all_agreements[a].collateralized_amount
              /\ V.all_loans[l].status = W.all_loans[l].status
              /\ V.renters[r].loan_agreement = l

\* C22: the loan-payment procedure run on an ACTIVE loan whose borrower has
\* at least monthly_payment takes exactly monthly_payment from the borrower's
\* funds, adds it to the Lender's total_income and to the borrower's
\* total_loan_costs, adds 1 to months_paid and leaves the Lender's
\* available_funds; unless the payment completes the loan, current_deposit,
\* collateralized_amount and the loan's status stay.  Over a Lender
\* activation: every loan paid has these effects on its borrower, loan and
\* agreement, and a Lender none of whose loans defaults keeps its
\* available_funds.
C22_SuccessfulPaymentEffects ==
    /\ [](\A r \in DOMAIN renters :
             (/\ renters[r].loan_agreement # 0
              /\ all_loans[renters[r].loan_agreement].status = "ACTIVE"
              /\ renters[r].funds
                    >= all_loans[renters[r].loan_agreement].monthly_payment)
                 => PaymentEffect(World, r))
    /\ [][\A l \in Loans :
             IsPaid(l) =>
                 LET r == all_loans[l].borrower
                     a == all_loans[l].rental_agreement
                     k == all_loans[l].lender
                     payment == all_loans[l].monthly_payment
                 IN  /\ renters[r].funds >= payment
                     /\ renters'[r].funds = renters[r].funds - payment
                     /\ renters'[r].total_loan_costs
                           = renters[r].total_loan_costs + payment
                     /\ all_loans'[l].months_paid = all_loans[l].months_paid + 1
                     /\ lenders'[k].total_income
                           = lenders[k].total_income
                               + SumOver({m \in Loans :
                                             all_loans[m].lender = k
                                                 /\ IsPaid(m)},
                                     [m \in Loans |->
                                         all_loans[m].monthly_payment])
                     /\ (\A m \in Loans : ~Defaults(m)) =>
                           lenders'[k].available_funds
                               = lenders[k].available_funds
                     /\ ~Completes(l) =>
                           /\ all_agreements'[a] = all_agreements[a]
                           /\ all_loans'[l].status = all_loans[l].status]_vars

\* C22 witness: a loan part paid and still ACTIVE, the instalments with the
\* Lender as income and counted in the borrower's loan costs, the collateral
\* still set aside.
C22_Witness ==
    \E l \in Loans :
        /\ all_loans[l].status = "ACTIVE"
        /\ all_loans[l].months_paid \in 2..5
        /\ renters[all_loans[l].borrower].total_loan_costs
              >= all_loans[l].months_paid * all_loans[l].monthly_payment
        /\ lenders[all_loans[l].lender].total_income
              = all_loans[l].months_paid * all_loans[l].monthly_payment
        /\ all_agreements[all_loans[l].rental_agreement].collateralized_amount
              = all_loans[l].collateral_amount

\* The collateral of the ACTIVE loans that reference agreement a.
ActiveCollateral(a) ==
    SumOver(LoansOfAgreement(a, "ACTIVE"),
            [l \in Loans |-> all_loans[l].collateral_amount])

\* C23: in every state between activations the collateralized_amount of
\* every agreement is the sum of collateral_amount over the ACTIVE loans that
\* reference it, hence 0 or exactly monthly_rent; the collateral of a loan
\* that leaves ACTIVE leaves the count in that step, returned to
\* current_deposit when the loan is COMPLETED and added to the Lender's
\* available_funds, current_deposit left as it was, when it is DEFAULTED.
C23_CollateralOfActiveLoans ==
    /\ [](\A a \in Agreements :
             /\ all_agreements[a].collateralized_amount = ActiveCollateral(a)
             /\ all_agreements[a].collateralized_amount
                   \in {0, all_agreements[a].monthly_rent}
             /\ Cardinality(LoansOfAgreement(a, "ACTIVE")) <= 1)
    /\ [][\A l \in Loans :
             LET a == all_loans[l].rental_agreement
                 k == all_loans[l].lender
                 c == all_loans[l].collateral_amount
             IN  /\ Completes(l) =>
                       /\ all_agreements'[a].collateralized_amount
                             = all_agreements[a].collateralized_amount - c
                       /\ all_agreements'[a].current_deposit
                             = all_agreements[a].current_deposit + c
                 /\ Defaults(l) =>
                       /\ all_agreements'[a].collateralized_amount
                             = all_agreements[a].collateralized_amount - c
                       /\ all_agreements'[a].current_deposit
                             = all_agreements[a].current_deposit
                       /\ lenders'[k].available_funds
                             = lenders[k].available_funds
                                 + SumOver({m \in Loans :
                                               all_loans[m].lender = k
                                                   /\ Defaults(m)},
                                       [m \in Loans |->
                                           all_loans[m].collateral_amount])
                       /\ lenders'[k].available_funds
                             >= lenders[k].available_funds + c]_vars

\* C23 witness: an agreement whose first loan was repaid and whose second is
\* ACTIVE, one rent set aside for it, beside an agreement that lost its
\* collateral to a default and counts none.
C23_Witness ==
    /\ \E a \in Agreements :
          /\ LoansOfAgreement(a, "COMPLETED") # {}
          /\ LoansOfAgreement(a, "ACTIVE") # {}
          /\ all_agreements[a].collateralized_amount
                = all_agreements[a].monthly_rent
    /\ \E a \in Agreements :
          /\ LoansOfAgreement(a, "DEFAULTED") # {}
          /\ all_agreements[a].collateralized_amount = 0

\* One Owner of risk_tolerance 0.5 and six Tenants of stability 8 that cannot
\* pay the deposit, as constructed.
FullHouseWorld ==
    [landlords |->
        <<NewLandlord([risk_tolerance |-> 50, property_value |-> 240000])>>,
     renters |->
        [i \in 1..6 |-> NewRenter([income |-> 6000, savings_rate |-> 5,
                                   financial_stability |-> 8])],
     lenders |-> <<>>, all_agreements |-> <<>>, all_loans |-> <<>>]

\* The Owner activated n times.
RECURSIVE LandlordAgentSteps(_, _)
LandlordAgentSteps(W, n) ==
    IF n = 0 THEN W ELSE LandlordAgentStep(LandlordAgentSteps(W, n - 1), 1)

\* After five activations the Owner holds five agreements and the sixth
\* Tenant, who qualifies, has none: a further activation changes nothing.
NothingAtCapacity ==
    LET W == LandlordAgentSteps(FullHouseWorld, 5) IN
    /\ Len(W.landlords[1].rental_agreements) = 5
    /\ Len(W.all_agreements) = 5
    /\ QualifiedRenters(W, 1) = {6}
    /\ LandlordAgentStep(W, 1) = W

\* Nothing but the new agreement, the two references to it and the deposit
\* paid is changed by the activation of Owner o that creates it.
OnlyTheAgreementAdded(o) ==
    LET a == Len(all_agreements')
        t == all_agreements'[a].renter
    IN  /\ SubSeq(all_agreements', 1, Len(all_agreements)) = all_agreements
        /\ \A q \in DOMAIN renters : q # t => renters'[q] = renters[q]
        /\ \A p \in DOMAIN landlords : p # o => landlords'[p] = landlords[p]
        /\ landlords'[o].total_income = landlords[o].total_income
        /\ landlords'[o].rental_agreements
              = Append(landlords[o].rental_agreements, a)
        /\ renters'[t].funds \in
              {renters[t].funds,
               renters[t].funds - all_agreements'[a].security_deposit}
        /\ lenders' = lenders
        /\ all_loans' = all_loans

\* C24: an Owner's activation creates an agreement only with a Tenant that
\* had no agreement and whose stability/10 is at least 1 - risk_tolerance at
\* that moment, and changes nothing besides; if no agreement-less Tenant
\* qualifies the activation changes no object at all: no agreement, no funds
\* moved; so does the activation of an Owner at capacity, a qualifying Tenant
\* at hand.  No agreement is created outside an Owner's activation.
C24_NoQualifierNoChange ==
    /\ [](NothingAtCapacity)
    /\ [][/\ \A o \in DOMAIN landlords :
                Activates(<<"Landlord", o>>) =>
                    IF Candidates(o) = {}
                         \/ Len(landlords[o].rental_agreements) >= 5
                    THEN WorldNext = World
                    ELSE /\ Len(all_agreements') = Len(all_agreements) + 1
                         /\ all_agreements'[Len(all_agreements')].renter
                               \in Candidates(o)
                         /\ all_agreements'[Len(all_agreements')].landlord = o
                         /\ OnlyTheAgreementAdded(o)
          /\ Len(all_agreements') # Len(all_agreements) =>
                \E o \in DOMAIN landlords : Activates(<<"Landlord", o>>)]_vars

\* C24 witness: an Owner was activated, in the second step or later, with
\* one Tenant under agreement and the only agreement-less Tenant below its
\* threshold: no agreement was added.
C24_Witness ==
    /\ steps >= 1
    /\ <<"Landlord", 1>> \in activated
    /\ Len(all_agreements) = 1
    /\ Len(renters) = 2
    /\ \E r \in DOMAIN renters :
          /\ renters[r].rental_agreement = 0
          /\ renters[r].financial_stability * 10
                < 100 - landlords[1].risk_tolerance
          /\ renters[r].funds
                = (renters[r].income * 6 * renters[r].savings_rate) \div 100

\* The rent of agreement a was paid in this step from the Tenant's funds: the
\* funds, the month's savings added, are down by the rent and no loan is
\* created.
PaidFromFunds(a) ==
    LET t == all_agreements[a].renter IN
    /\ renters'[t].funds * 100
          = renters[t].funds * 100 + renters[t].income * renters[t].savings_rate
              - all_agreements[a].monthly_rent * 100
    /\ all_loans' = all_loans

\* The rent of agreement a was paid in this step by the funding of a loan:
\* one loan is created on it, ACTIVE, and the Tenant's funds keep the month's
\* savings.
PaidByLoan(a) ==
    LET t == all_agreements[a].renter IN
    /\ renters'[t].funds * 100
          = renters[t].funds * 100 + renters[t].income * renters[t].savings_rate
    /\ Len(all_loans') = Len(all_loans) + 1
    /\ all_loans'[Len(all_loans')].rental_agreement = a
    /\ all_loans'[Len(all_loans')].status = "ACTIVE"
    /\ all_loans'[Len(all_loans')].loan_amount = all_agreements[a].monthly_rent

\* The agreements of Owner o that had a month of rent counted in this step.
RentCounted(o) ==
    {a \in Agreements :
        /\ all_agreements[a].landlord = o
        /\ all_agreements'[a].months_active # all_agreements[a].months_active}

\* C25: loan funding stands in for the month's rent payment and never adds
\* to it.  months_active of an agreement changes only in the activation of
\* its Tenant, one per step, and then by 1, with one monthly_rent credited to
\* its Owner, paid either from the funds or by the funding of a loan, never
\* both; an Owner's total_income changes by nothing else.  Over a whole
\* step the single Owner of a run is credited at most one monthly_rent for
\* each agreement ACTIVE at the end of the step.
C25_OneRentPerStep ==
    /\ [](/\ \A a \in Agreements :
                all_agreements[a].months_active
                    <= steps + (IF <<"Renter", all_agreements[a].renter>>
                                      \in activated THEN 1 ELSE 0)
          /\ Len(landlords) = 1 =>
                \A i \in 1..(Len(model_vars) - 1) :
                    model_vars[i + 1].Avg_Landlord_Income.num
                        - model_vars[i].Avg_Landlord_Income.num
                      <= model_vars[i + 1].Active_Rentals
                           * MonthlyRent(landlords[1].property_value))
    /\ [][/\ \A a \in Agreements :
                all_agreements'[a].months_active
                      # all_agreements[a].months_active
                  => /\ Activates(<<"Renter", all_agreements[a].renter>>)
                     /\ all_agreements'[a].months_active
                           = all_agreements[a].months_active + 1
                     /\ landlords'[all_agreements[a].landlord].total_income
                           = landlords[all_agreements[a].landlord].total_income
                               + all_agreements[a].monthly_rent
                     /\ PaidFromFunds(a) \/ PaidByLoan(a)
                     /\ ~(PaidFromFunds(a) /\ PaidByLoan(a))
          /\ \A o \in DOMAIN landlords :
                /\ Cardinality(RentCounted(o)) <= 1
                /\ landlords'[o].total_income # landlords[o].total_income
                      => RentCounted(o) # {}
          /\ Len(all_loans') # Len(all_loans) =>
                \E a \in Agreements :
                    /\ PaidByLoan(a)
                    /\ all_agreements'[a].months_active
                          = all_agreements[a].months_active + 1]_vars

\* C25 witness: the end of a step in which the Owner was credited two rents,
\* one for each of its two agreements, one of them by the funding of a loan.
C25_Witness ==
    /\ activated = {}
    /\ Len(landlords) = 1
    /\ Len(model_vars) >= 3
    /\ model_vars[Len(model_vars)].Active_Rentals = 2
    /\ model_vars[Len(model_vars)].Active_Loans
          = model_vars[Len(model_vars) - 1].Active_Loans + 1
    /\ model_vars[Len(model_vars)].Completed_Loans
          = model_vars[Len(model_vars) - 1].Completed_Loans
    /\ model_vars[Len(model_vars)].Defaulted_Loans
          = model_vars[Len(model_vars) - 1].Defaulted_Loans
    /\ model_vars[Len(model_vars)].Avg_Landlord_Income.num
          = model_vars[Len(model_vars) - 1].Avg_Landlord_Income.num
              + 2 * MonthlyRent(landlords[1].property_value)

\* The records of a collection before the step are its first records after
\* it, each at its place and under its id, and at most one record is added.
AppendOnly(before, after) ==
    /\ Len(after) \in {Len(before), Len(before) + 1}
    /\ \A i \in DOMAIN before : after[i].id = before[i].id

\* C26: all_agreements and all_loans are append-only and their ids are
\* unique.  No step removes or reorders a record or shortens a collection: a
\* step leaves each collection as it was or with one record appended, the
\* parties of every record as they were; no two agreements share an id and no
\* two loans share an id, the id of the i-th record being numbered i.
C26_AppendOnlyUniqueIds ==
    /\ [](/\ \A i \in Agreements : \A j \in Agreements :
                all_agreements[i].id = all_agreements[j].id => i = j
          /\ \A i \in Loans : \A j \in Loans :
                all_loans[i].id = all_loans[j].id => i = j
          /\ \A i \in Agreements : all_agreements[i].id = <<"A", i>>
          /\ \A i \in Loans : all_loans[i].id = <<"L", i>>)
    /\ [][/\ AppendOnly(all_agreements, all_agreements')
          /\ AppendOnly(all_loans, all_loans')
          /\ \A i \in Agreements :
                /\ all_agreements'[i].landlord = all_agreements[i].landlord
                /\ all_agreements'[i].renter = all_agreements[i].renter
                /\ all_agreements'[i].security_deposit
                      = all_agreements[i].security_deposit
          /\ \A i \in Loans :
                /\ all_loans'[i].borrower = all_loans[i].borrower
                /\ all_loans'[i].lender = all_loans[i].lender
                /\ all_loans'[i].rental_agreement
                      = all_loans[i].rental_agreement
                /\ all_loans'[i].loan_amount = all_loans[i].loan_amount]_vars

\* C26 witness: two agreements and three loans, the first loans settled: a
\* loan was appended while the number of ACTIVE loans was below its place in
\* the collection.
C26_Witness ==
    /\ Len(all_agreements) = 2
    /\ Len(all_loans) = 3
    /\ all_loans[1].status \in {"COMPLETED", "DEFAULTED"}
    /\ all_loans[3].status = "ACTIVE"
    /\ all_loans[3].id = <<"L", 3>>

\* C27 (as claimed): in the traditional model no loan is ever created, in
\* the first step or later, whatever the owner, tenant and lender counts:
\* all_loans stays empty and Total_Collateralized and Capital_Efficiency are
\* 0 in every snapshot.
C27_TraditionalNeverLends ==
    /\ all_loans = <<>>
    /\ \A i \in DOMAIN model_vars :
          /\ model_vars[i].Total_Collateralized = 0
          /\ model_vars[i].Capital_Efficiency.num = 0
          /\ model_vars[i].Active_Loans = 0

\* C27 witness: a traditional model built with a Lender, after its first
\* step: a Tenant activated after its Owner has taken a loan, and the first
\* snapshot of the step counts its collateral.
C27_Witness ==
    /\ steps >= 1
    /\ Len(lenders) >= 1
    /\ all_loans # <<>>
    /\ model_vars[2].Active_Loans = 1
    /\ model_vars[2].Total_Collateralized > 0
    /\ model_vars[2].Capital_Efficiency.num > 0

\* The funds of Tenant r are debited in this step only by a deposit, a rent
\* or a loan payment that the balance covers.
DebitCovered(r) ==
    LET a == renters'[r].rental_agreement
        l == renters[r].loan_agreement
    IN  \/ /\ renters[r].rental_agreement = 0
           /\ a # 0
           /\ renters[r].funds >= all_agreements'[a].security_deposit
           /\ renters'[r].funds
                 = renters[r].funds - all_agreements'[a].security_deposit
        \/ /\ Activates(<<"Renter", r>>)
           /\ renters[r].funds + Accrual(World, r)
                 >= 2 * all_agreements[a].monthly_rent
           /\ renters'[r].funds
                 = renters[r].funds + Accrual(World, r)
                     - all_agreements[a].monthly_rent
        \/ /\ l # 0
           /\ Activates(<<"Lender", all_loans[l].lender>>)
           /\ renters[r].funds >= all_loans[l].monthly_payment
           /\ renters'[r].funds
                 = renters[r].funds - all_loans[l].monthly_payment

\* The available_funds of Lender k are debited in this step only by the
\* amount of a loan just created with it, which the balance covers.
DisbursementCovered(k) ==
    LET l == Len(all_loans') IN
    /\ Len(all_loans') = Len(all_loans) + 1
    /\ all_loans'[l].lender = k
    /\ lenders[k].available_funds >= all_loans'[l].loan_amount
    /\ lenders'[k].available_funds
          = lenders[k].available_funds - all_loans'[l].loan_amount

\* C28: the funds of a Tenant and the available_funds of a Lender are never
\* negative; a deposit, a rent, a loan payment or a loan amount is debited
\* only when the payer's balance covers it, the initial balances being
\* non-negative, and nothing else lowers these balances.
C28_BalancesNeverNegative ==
    /\ [](/\ \A r \in DOMAIN renters : renters[r].funds >= 0
          /\ \A k \in DOMAIN lenders : lenders[k].available_funds >= 0)
    /\ [][/\ \A r \in DOMAIN renters :
                renters'[r].funds < renters[r].funds => DebitCovered(r)
          /\ \A k \in DOMAIN lenders :
                lenders'[k].available_funds < lenders[k].available_funds
                    => DisbursementCovered(k)]_vars

\* C28 witness: a Tenant whose funds did not cover the deposit, its agreement
\* left INITIALIZED, and a Tenant whose funds did not cover a loan payment,
\* its loan DEFAULTED; the balances of both are untouched by the refusals.
C28_Witness ==
    /\ \E a \in Agreements :
          /\ all_agreements[a].status = "INITIALIZED"
          /\ renters[all_agreements[a].renter].funds
                < all_agreements[a].security_deposit
          /\ renters[all_agreements[a].renter].funds > 0
    /\ \E l \in Loans :
          /\ all_loans[l].status = "DEFAULTED"
          /\ renters[all_loans[l].borrower].funds >= 0
          /\ lenders[all_loans[l].lender].available_funds >= 0

\* The rent counted on the agreements of Owner o: months_active *
\* monthly_rent, summed.
RentCountedFor(o) ==
    SumOver({a \in Agreements : all_agreements[a].landlord = o},
            [a \in Agreements |->
                all_agreements[a].months_active
                    * all_agreements[a].monthly_rent])

\* The steps completed since agreement a was created.  In a run of one
\* Owner the a-th agreement is created in the a-th step, a - 1 steps having
\* been completed (the second conjunct of the claim's action checks it).
StepsSinceCreated(a) == steps - (a - 1)

\* C29: in every state between activations the total_income of every Owner
\* is the sum over its agreements of months_active * monthly_rent, and
\* months_active of an agreement is at most the number of steps completed
\* since the agreement was created plus one, and at most that number unless
\* its Tenant has been activated in the step under way.
C29_RentAccounting ==
    /\ [](/\ \A o \in DOMAIN landlords :
                landlords[o].total_income = RentCountedFor(o)
          /\ \A a \in Agreements :
                /\ all_agreements[a].months_active >= 0
                /\ all_agreements[a].months_active <= StepsSinceCreated(a) + 1
                /\ <<"Renter", all_agreements[a].renter>> \notin activated
                      => all_agreements[a].months_active
                            <= StepsSinceCreated(a))
    /\ [][/\ Len(landlords) <= 1
          /\ Len(all_agreements') # Len(all_agreements)
                => Len(all_agreements') = steps + 1]_vars

\* C29 witness: an Owner of two agreements, the first paid for once by a
\* loan, the second paid for in the step of its creation and in every step
\* since, the one under way included.
C29_Witness ==
    \E a \in Agreements : \E b \in Agreements :
        /\ a < b
        /\ all_agreements[a].landlord = all_agreements[b].landlord
        /\ LoansOfAgreement(a, "ACTIVE") # {}
        /\ all_agreements[a].months_active >= 2
        /\ all_agreements[b].months_active = StepsSinceCreated(b) + 1
        /\ all_agreements[b].months_active >= 2
        /\ landlords[all_agreements[a].landlord].total_income
              = (all_agreements[a].months_active
                    + all_agreements[b].months_active)
                  * all_agreements[a].monthly_rent

\* The value held in the accounts of the claim: Tenant funds, Owner
\* total_income, Lender available_funds and total_income, and the deposit
\* pools current_deposit + collateralized_amount of the ACTIVE agreements.
TotalValue(W) ==
    SumSeq([i \in 1..Len(W.renters) |-> W.renters[i].funds])
      + SumSeq([i \in 1..Len(W.landlords) |-> W.landlords[i].total_income])
      + SumSeq([i \in 1..Len(W.lenders) |->
                   W.lenders[i].available_funds + W.lenders[i].total_income])
      + SumSeq([i \in 1..Len(W.all_agreements) |->
                   IF W.all_agreements[i].status = "ACTIVE"
                   THEN W.all_agreements[i].current_deposit
                          + W.all_agreements[i].collateralized_amount
                   ELSE 0])

\* The savings income * savings_rate, in hundredths, that this step adds to
\* the funds: those of the Tenant it activates, if it holds an ACTIVE
\* agreement.
Accrued100 ==
    SumOver({r \in DOMAIN renters :
                /\ Activates(<<"Renter", r>>)
                /\ renters[r].rental_agreement # 0
                /\ all_agreements[renters[r].rental_agreement].status = "ACTIVE"},
            [r \in DOMAIN renters |-> renters[r].income * renters[r].savings_rate])

\* C30: funds are conserved.  The total of Tenant funds, Owner total_income,
\* Lender available_funds, Lender total_income and the deposit pools of the
\* ACTIVE agreements changes over an activation by the accrual income *
\* savings_rate of the Tenant activated, if it holds an ACTIVE agreement, and
\* by nothing else: the activation of an Owner (deposit payment) or of a
\* Lender (loan payments, completions, defaults) and the end of a step, which
\* activate no Tenant, leave the total, and rent payment and loan funding add
\* nothing to the accrual.
C30_FundsConserved ==
    [][TotalValue(WorldNext) * 100 = TotalValue(World) * 100 + Accrued100]_vars

\* C30 witness: a run in which deposits and rents were paid, and loans
\* funded, paid, completed and defaulted: a loan of each final status, an
\* ACTIVE loan part paid, and an Owner and a Lender with income.
C30_Witness ==
    /\ \E l \in Loans : all_loans[l].status = "COMPLETED"
    /\ \E l \in Loans : all_loans[l].status = "DEFAULTED"
    /\ \E l \in Loans :
          all_loans[l].status = "ACTIVE" /\ all_loans[l].months_paid >= 1
    /\ \E o \in DOMAIN landlords : landlords[o].total_income > 0
    /\ \E k \in DOMAIN lenders :
          lenders[k].total_income > 0 /\ lenders[k].defaults_recovered > 0
    /\ TotalValue(World) > 0

\* The agreements Tenant r is party to.
AgreementsOfRenter(r) == {a \in Agreements : all_agreements[a].renter = r}

C32_AtMostFiveAgreements ==
    /\ [](\A o \in DOMAIN landlords :
             /\ Len(landlords[o].rental_agreements) <= 5
             /\ Len(landlords[o].rental_agreements)
                   = Cardinality({a \in Agreements :
                                     all_agreements[a].landlord = o})
             /\ Len(landlords[o].rental_agreements)
                   <= steps + (IF <<"Landlord", o>> \in activated
                               THEN 1 ELSE 0))
    /\ [][\A o \in DOMAIN landlords :
             /\ Len(landlords'[o].rental_agreements)
                   \in {Len(landlords[o].rental_agreements),
                        Len(landlords[o].rental_agreements) + 1}
             /\ landlords'[o].rental_agreements
                      # landlords[o].rental_agreements
                   => /\ Activates(<<"Landlord", o>>)
                      /\ Len(landlords[o].rental_agreements) < 5
             /\ Len(landlords[o].rental_agreements) = 5
                   => /\ landlords'[o].rental_agreements
                            = landlords[o].rental_agreements
                      /\ Len(all_agreements') = Len(all_agreements)]_vars

\* C32 witness: the end of a run whose Owner holds 5 agreements, one of them
\* ACTIVE, and was activated at capacity with a qualifying Tenant still
\* without an agreement.
C32_Witness ==
    /\ steps = MaxSteps
    /\ Len(landlords[1].rental_agreements) = 5
    /\ ActiveAgreements(1) = 1
    /\ Candidates(1) # {}
    /\ Len(all_agreements) = 5

\* C33: a failed deposit is permanent.  An agreement left INITIALIZED by the
\* Owner activation that created it stays INITIALIZED and unchanged for the
\* rest of the run; its Tenant is never changed again: its funds stay the
\* initial income * 6 * savings_rate, short of the deposit (no accrual, no
\* rent, no loan), and it keeps this agreement, so that it is never matched
\* again; and the agreement stays in its Owner's list, one of its 5 slots.
C33_FailedDepositPermanent ==
    /\ [](\A a \in Agreements :
             all_agreements[a].status = "INITIALIZED" =>
                 LET t == all_agreements[a].renter
                     o == all_agreements[a].landlord
                 IN  /\ renters[t].rental_agreement = a
                     /\ renters[t].funds * 100
                           = renters[t].income * 6 * renters[t].savings_rate
                     /\ renters[t].funds < all_agreements[a].security_deposit
                     /\ renters[t].loan_agreement = 0
                     /\ all_agreements[a].months_active = 0
                     /\ \E i \in DOMAIN landlords[o].rental_agreements :
                           landlords[o].rental_agreements[i] = a
                     /\ t \notin AvailableRenters(World))
    /\ [][\A a \in Agreements :
             all_agreements[a].status = "INITIALIZED" =>
                 /\ all_agreements'[a] = all_agreements[a]
                 /\ renters'[all_agreements[a].renter]
                       = renters[all_agreements[a].renter]]_vars

\* C33 witness: the end of a run in which one agreement is still INITIALIZED,
\* its Tenant holding its initial funds, while the Tenant of another
\* agreement has paid rent for months.
C33_Witness ==
    /\ steps = MaxSteps
    /\ \E a, b \in Agreements :
          /\ all_agreements[a].status = "INITIALIZED"
          /\ renters[all_agreements[a].renter].funds > 0
          /\ all_agreements[b].status = "ACTIVE"
          /\ all_agreements[b].months_active >= 3

\* C34: funding of a created loan never fails.  Between agent activations
\* no loan of the global loan collection is INITIALIZED, because a loan
\* record is created only with a lender whose available_funds cover the
\* loan amount: every creation takes a lender of sufficient funds, debits
\* it the loan amount and leaves the loan ACTIVE.
C34_FundingNeverFails ==
    /\ [](\A l \in Loans : all_loans[l].status # "INITIALIZED")
    /\ [][\A r \in DOMAIN renters :
             CreatesLoan(r) =>
                 LET l == Len(all_loans')
                     k == all_loans'[l].lender
                 IN  /\ Len(all_loans') = Len(all_loans) + 1
                     /\ lenders[k].available_funds >= all_loans'[l].loan_amount
                     /\ lenders'[k].available_funds
                           = lenders[k].available_funds - all_loans'[l].loan_amount
                     /\ all_loans'[l].status = "ACTIVE"]_vars

\* C34 witness: a funded loan whose Lender is left with less than the loan
\* amount, no Lender being able to fund another loan of that amount.
C34_Witness ==
    \E l \in Loans :
        /\ all_loans[l].status = "ACTIVE"
        /\ lenders[all_loans[l].lender].available_funds < all_loans[l].loan_amount
        /\ \A k \in DOMAIN lenders :
              lenders[k].available_funds < all_loans[l].loan_amount

\* The loan l is in the loan list of Lender k.
InLoansOf(k, l) ==
    \E i \in DOMAIN lenders[k].loans : lenders[k].loans[i] = l

\* C35: loan reference consistency.  Between agent activations a Tenant's
\* loan reference is non-empty if and only if it points to an ACTIVE loan
\* whose borrower is that Tenant, and every ACTIVE loan is the loan its
\* borrower references and is in its lender's own loan list.
C35_LoanReferenceConsistency ==
    /\ \A r \in DOMAIN renters :
          /\ renters[r].loan_agreement \in Loans \cup {0}
          /\ renters[r].loan_agreement # 0 <=>
                \E l \in Loans :
                    /\ renters[r].loan_agreement = l
                    /\ all_loans[l].status = "ACTIVE"
                    /\ all_loans[l].borrower = r
    /\ \A l \in Loans :
          all_loans[l].status = "ACTIVE" =>
              /\ renters[all_loans[l].borrower].loan_agreement = l
              /\ InLoansOf(all_loans[l].lender, l)

\* C35 witness: a Tenant references its second loan, ACTIVE, after its first
\* loan ended and the reference to it was cleared.
C35_Witness ==
    \E l, m \in Loans :
        /\ l < m
        /\ all_loans[l].borrower = all_loans[m].borrower
        /\ all_loans[l].status \in {"COMPLETED", "DEFAULTED"}
        /\ all_loans[m].status = "ACTIVE"
        /\ renters[all_loans[m].borrower].loan_agreement = m
        /\ InLoansOf(all_loans[m].lender, l)
        /\ InLoansOf(all_loans[m].lender, m)

\* C36: at most one loan ever defaults per rental agreement.  After a
\* default the agreement's current_deposit stays at 2 * monthly_rent, its
\* available collateral is 0 and its Tenant creates no other loan for the
\* rest of the run; the deposit pool current_deposit + collateralized_amount
\* is never below 2 * monthly_rent, and never negative.
C36_OneDefaultPerAgreement ==
    /\ [](\A a \in Agreements :
             LET rent == all_agreements[a].monthly_rent
                 pool == all_agreements[a].current_deposit
                            + all_agreements[a].collateralized_amount
             IN  /\ Cardinality(LoansOfAgreement(a, "DEFAULTED")) <= 1
                 /\ pool >= 2 * rent
                 /\ pool >= 0
                 /\ all_agreements[a].current_deposit >= 0
                 /\ all_agreements[a].collateralized_amount >= 0
                 /\ LoansOfAgreement(a, "DEFAULTED") # {} =>
                        /\ all_agreements[a].current_deposit = 2 * rent
                        /\ all_agreements[a].collateralized_amount = 0
                        /\ AvailableCollateral(all_agreements[a].current_deposit,
                                               rent) = 0
                        /\ LoansOfAgreement(a, "ACTIVE") = {}
                        /\ renters[all_agreements[a].renter].loan_agreement = 0)
    /\ [][\A a \in Agreements :
             LoansOfAgreement(a, "DEFAULTED") # {} =>
                 /\ ~ CreatesLoan(all_agreements[a].renter)
                 /\ all_agreements'[a].current_deposit
                       = all_agreements[a].current_deposit]_vars

\* C36 witness: a loan of the agreement defaulted in an earlier step (its
\* Lender has not been activated in the running one); the Tenant, activated
\* since, is short of two months of rent and has created no loan, although a
\* Lender could fund one.
C36_Witness ==
    \E a \in Agreements :
        /\ \E l \in LoansOfAgreement(a, "DEFAULTED") :
              <<"Lender", all_loans[l].lender>> \notin activated
        /\ <<"Renter", all_agreements[a].renter>> \in activated
        /\ renters[all_agreements[a].renter].funds
              < 2 * all_agreements[a].monthly_rent
        /\ renters[all_agreements[a].renter].loan_agreement = 0
        /\ LendersWith(all_agreements[a].monthly_rent) # {}
        /\ all_agreements[a].current_deposit = 2 * all_agreements[a].monthly_rent

\* A payment of loan l was attempted in this step: it is paid or defaults.
PaymentAttempted(l) == IsPaid(l) \/ Defaults(l)

\* The number of loans at the end of model step n, as the data collector
\* recorded it then (its row 1 being the one collected at initialization).
LoansAtEndOfStep(n) ==
    model_vars[n + 1].Active_Loans + model_vars[n + 1].Completed_Loans
        + model_vars[n + 1].Defaulted_Loans

\* C37: bounded loan lifetime.  A loan that becomes ACTIVE during model step
\* s, one of the loans counted at the end of step s, is COMPLETED or
\* DEFAULTED by the end of step s + 6, that is whenever s + 6 steps or more
\* are counted.  A payment of a loan is attempted at every activation of its
\* Lender that finds it ACTIVE, and at no other activation: so the first
\* attempt is in step s itself when the Lender is activated after the
\* borrower in that step, and in step s + 1 otherwise; the origination
\* itself is no attempt.
C37_BoundedLoanLifetime ==
    /\ [](/\ Len(model_vars) >= steps + 1
          /\ LoansAtEndOfStep(0) = 0
          /\ \A s \in 1..steps : \A l \in Loans :
                 /\ l <= LoansAtEndOfStep(s)
                 /\ steps >= s + LoanDuration
                 => all_loans[l].status \in {"COMPLETED", "DEFAULTED"})
    /\ [][/\ \A l \in Loans :
                /\ all_loans[l].status = "ACTIVE"
                       /\ Activates(<<"Lender", all_loans[l].lender>>)
                   => PaymentAttempted(l)
                /\ PaymentAttempted(l)
                   => Activates(<<"Lender", all_loans[l].lender>>)
          /\ \A r \in DOMAIN renters :
                CreatesLoan(r) =>
                    /\ all_loans'[Len(all_loans')].status = "ACTIVE"
                    /\ all_loans'[Len(all_loans')].months_paid = 0]_vars

\* C37 witness: six steps are over and the seventh is running; a loan
\* created in step 1 is ACTIVE with five payments made, its Lender yet to be
\* activated in this step for the last one, and another loan has defaulted.
C37_Witness ==
    /\ steps = LoanDuration
    /\ activated # {}
    /\ \E l \in Loans :
          /\ l <= LoansAtEndOfStep(1)
          /\ all_loans[l].status = "ACTIVE"
          /\ all_loans[l].months_paid = LoanDuration - 1
          /\ <<"Lender", all_loans[l].lender>> \notin activated
    /\ \E m \in Loans : all_loans[m].status = "DEFAULTED"

\* Tenant r is short at the rent decision: its funds, with the month's
\* accrual when its agreement is ACTIVE, are below 2 * monthly_rent.
ShortOfFunds(r) ==
    LET a == renters[r].rental_agreement IN
    /\ a # 0
    /\ (IF all_agreements[a].status = "ACTIVE"
        THEN renters[r].funds * 100
               + renters[r].income * renters[r].savings_rate
        ELSE renters[r].funds * 100)
          < 2 * all_agreements[a].monthly_rent * 100

\* C38: a missed rent has no effect.  In a Tenant activation where the funds
\* are below 2 * monthly_rent and no loan is originated, the Owner's
\* total_income and the agreement's months_active, months_in_default,
\* current_deposit, collateralized_amount and status are unchanged; with an
\* ACTIVE agreement that is the case exactly when the Tenant already holds a
\* loan, the available collateral is below the rent or no Lender has enough
\* funds.  months_in_default is 0 in every reachable state.
C38_MissedRentNoEffect ==
    /\ [](\A a \in Agreements : all_agreements[a].months_in_default = 0)
    /\ [][\A r \in DOMAIN renters :
             Activates(<<"Renter", r>>) /\ ShortOfFunds(r) =>
                 LET a == renters[r].rental_agreement
                     o == all_agreements[a].landlord
                     rent == all_agreements[a].monthly_rent
                 IN  /\ all_agreements[a].status = "ACTIVE" =>
                            (~ OriginatesLoan(r) <=>
                                \/ renters[r].loan_agreement # 0
                                \/ AvailableCollateral(
                                       all_agreements[a].current_deposit, rent)
                                     < rent
                                \/ LendersWith(rent) = {})
                     /\ ~ OriginatesLoan(r) =>
                            /\ landlords'[o].total_income
                                  = landlords[o].total_income
                            /\ all_agreements'[a].months_active
                                  = all_agreements[a].months_active
                            /\ all_agreements'[a].months_in_default
                                  = all_agreements[a].months_in_default
                            /\ all_agreements'[a].current_deposit
                                  = all_agreements[a].current_deposit
                            /\ all_agreements'[a].collateralized_amount
                                  = all_agreements[a].collateralized_amount
                            /\ all_agreements'[a].status
                                  = all_agreements[a].status
                            /\ Len(all_loans') = Len(all_loans)]_vars

\* C38 witness: a Tenant activated in the step under way holds an ACTIVE
\* loan and less than two months of rent, and its ACTIVE agreement counts
\* fewer months than the steps since its creation: a rent was missed.
C38_Witness ==
    \E a \in Agreements :
        /\ all_agreements[a].status = "ACTIVE"
        /\ <<"Renter", all_agreements[a].renter>> \in activated
        /\ LoansOfAgreement(a, "ACTIVE") # {}
        /\ renters[all_agreements[a].renter].funds
              < 2 * all_agreements[a].monthly_rent
        /\ all_agreements[a].months_active >= 1
        /\ all_agreements[a].months_active < StepsSinceCreated(a)
        /\ all_agreements[a].months_in_default = 0

\* The loans Lender k funded, and those of them that defaulted.
LoansOfLender(k) == {l \in Loans : all_loans[l].lender = k}

DefaultedLoansOfLender(k) ==
    {l \in LoansOfLender(k) : all_loans[l].status = "DEFAULTED"}

\* What Lender k held at construction by the accounting of the claim: its
\* available_funds, plus the loan_amount of the loans it funded, minus the
\* collateral_amount of its DEFAULTED loans.
CapitalAtStart(k) ==
    lenders[k].available_funds
        + SumOver(LoansOfLender(k), [l \in Loans |-> all_loans[l].loan_amount])
        - SumOver(DefaultedLoansOfLender(k),
                  [l \in Loans |-> all_loans[l].collateral_amount])

\* The same in the state a step leads to.
CapitalAtStartNext(k) ==
    LET mine == {l \in DOMAIN all_loans' : all_loans'[l].lender = k}
    IN  lenders'[k].available_funds
            + SumOver(mine, [l \in DOMAIN all_loans' |->
                                 all_loans'[l].loan_amount])
            - SumOver({l \in mine : all_loans'[l].status = "DEFAULTED"},
                      [l \in DOMAIN all_loans' |->
                           all_loans'[l].collateral_amount])

\* C39: Lender capital accounting.  Between agent activations each Lender's
\* available_funds is its initial available_funds, one of those Lenders of
\* its interest rate are constructed with and the same all along the run,
\* minus the loan_amount of the loans it funded plus the collateral_amount
\* of its DEFAULTED loans; the loans it funded are those of its own list;
\* total_income is the sum over its loans of months_paid * monthly_payment;
\* available_funds grows in no step but one in which a loan of the Lender
\* defaults, so that repayments and completions never increase it.
C39_LenderCapitalAccounting ==
    /\ [](\A k \in DOMAIN lenders :
             /\ \E p \in LenderParams :
                   /\ p.interest_rate = lenders[k].interest_rate
                   /\ p.available_funds = CapitalAtStart(k)
             /\ \A l \in Loans : all_loans[l].lender = k <=> InLoansOf(k, l)
             /\ lenders[k].total_income =
                   SumOver(LoansOfLender(k),
                           [l \in Loans |-> all_loans[l].months_paid
                                              * all_loans[l].monthly_payment])
             /\ lenders[k].defaults_recovered =
                   SumOver(DefaultedLoansOfLender(k),
                           [l \in Loans |-> all_loans[l].collateral_amount]))
    /\ [][\A k \in DOMAIN lenders :
             /\ CapitalAtStartNext(k) = CapitalAtStart(k)
             /\ lenders'[k].available_funds > lenders[k].available_funds
                   => \E l \in LoansOfLender(k) : Defaults(l)
             /\ \A l \in LoansOfLender(k) :
                   (IsPaid(l) \/ Completes(l))
                   /\ (\A m \in LoansOfLender(k) : ~ Defaults(m))
                   => lenders'[k].available_funds = lenders[k].available_funds]_vars

\* C39 witness: a Lender funded three loans or more; one was repaid, one
\* defaulted and one is being repaid, and the Lender holds less than it
\* started with.
C39_Witness ==
    \E k \in DOMAIN lenders :
        /\ \E l \in LoansOfLender(k) : all_loans[l].status = "COMPLETED"
        /\ DefaultedLoansOfLender(k) # {}
        /\ \E l \in LoansOfLender(k) :
              all_loans[l].status = "ACTIVE" /\ all_loans[l].months_paid >= 1
        /\ lenders[k].available_funds < CapitalAtStart(k)
        /\ lenders[k].total_income > 0

====
